---- MODULE Spec2Model ----
(***************************************************************************)
(* Model of slice-oas-by-resource: the reference resolver, the endpoint    *)
(* slicer, the 7-phase validator and the version converter.                *)
(*                                                                         *)
(* Documents are JSON trees.  A JSON value is a record [t, s, c]:          *)
(*   t = "dict": c is the insertion-ordered sequence of <<key, value>>     *)
(*   t = "list": c is the sequence of items                                *)
(*   t = "str" : s is the string, held as its segments between "/"         *)
(*               ("#/components/schemas/A" is <<"#","components",          *)
(*               "schemas","A">>, "object" is <<"object">>)                *)
(*   t = "bool": s is <<"true">> or <<"false">>                            *)
(***************************************************************************)
EXTENDS Integers, Sequences, FiniteSets, TLC

VARIABLES
    mode,             \* which entry point the run exercises
    doc,              \* the caller's document (self.doc of slicer and resolver)
    doc0,             \* the caller's document as it was at construction
    argPath,          \* extract(path, method): path
    argMethod,        \* extract(path, method): method
    pc,               \* position inside extract / resolve_all_refs
    calls,            \* completed extract calls
    extracted,        \* the document under assembly / last returned (object)
    shared,           \* key paths of doc whose object is also held by extracted
    resolved,         \* ResolvedComponents of the running resolve_all_refs
    visited,          \* visited set of the running resolve_all_refs
    refs_to_process,  \* BFS queue of the running resolve_all_refs
    adds,             \* calls of ResolvedComponents.add per slot (saturating)
    returned,         \* what each extract call returned, in call order
    mutated,          \* whether the caller has written into a returned document
    original_doc,     \* EndpointValidator.original_doc (None when not supplied)
    next_phase,       \* the phase validate runs next (8: validate has returned)
    ran,              \* the phases validate has executed, in execution order
    vresult,          \* the ValidationResult validate returned
    conv_request,     \* the VersionConversionRequest of the converter
    oas_validator,    \* verdict of openapi-spec-validator on a converted document
    result_2,         \* result of converting the converted document back
    batch_pc,         \* position inside BatchProcessor.process
    endpoints,        \* the (path, method) list filter_endpoints returned
    batch_request,    \* BatchExtractionRequest: concurrency, dry_run,
                      \* generate_csv, output_format
    futures,          \* state of the future submitted for each endpoint
    processed,        \* how often _extract_endpoint ran for each endpoint
    extracted_count,  \* self.extracted_count
    failed_count,     \* self.failed_count
    failed_endpoints, \* self.failed_endpoints
    output_files,     \* self.output_files
    batch_result,     \* the BatchExtractionResult process returned
    files,            \* the output directory: (file name, endpoint written)
    csv_exists,       \* whether the index file exists
    csv_rows,         \* the data rows of the index file, as (path, method)
    known_entries,    \* CSVIndexManager._known_entries
    csv_initialized,  \* CSVIndexManager._initialized
    csv_lock,         \* holder of CSVIndexManager.lock (0: free)
    csv_threads       \* the running append_entry / append_batch calls

vars == <<mode, doc, doc0, argPath, argMethod, pc, calls, extracted, shared,
          resolved, visited, refs_to_process, adds, returned, mutated,
          original_doc, next_phase, ran, vresult, conv_request, oas_validator,
          result_2, batch_pc, endpoints, batch_request, futures, processed,
          extracted_count, failed_count, failed_endpoints, output_files,
          batch_result, files, csv_exists, csv_rows, known_entries,
          csv_initialized, csv_lock, csv_threads>>
resolverVars == <<argPath, argMethod, resolved, visited, refs_to_process, adds>>
validatorVars == <<original_doc, next_phase, ran, vresult>>
converterVars == <<conv_request, oas_validator, result_2>>
batchVars == <<batch_pc, endpoints, batch_request, futures, processed,
               extracted_count, failed_count, failed_endpoints, output_files,
               batch_result, files, csv_exists, csv_rows, known_entries,
               csv_initialized, csv_lock, csv_threads>>
csvVars == <<csv_exists, csv_rows, known_entries, csv_initialized, csv_lock,
             csv_threads>>

-----------------------------------------------------------------------------
(* Bounds *)

NumSchemas == 3
MaxCalls == 2
AddCap == 2
MaxDefects == 2
MaxFeatures == 2
MaxEndpoints == 3
MaxThreads == 2
MaxAppends == 3

-----------------------------------------------------------------------------
(* JSON values *)

Str(x) == [t |-> "str", s |-> <<x>>, c |-> <<>>]
StrParts(p) == [t |-> "str", s |-> p, c |-> <<>>]
Bool(b) == [t |-> "bool", s |-> <<IF b THEN "true" ELSE "false">>, c |-> <<>>]
Dict(kv) == [t |-> "dict", s |-> <<>>, c |-> kv]
List(items) == [t |-> "list", s |-> <<>>, c |-> items]
Num(x) == [t |-> "num", s |-> <<x>>, c |-> <<>>]
None == [t |-> "none", s |-> <<>>, c |-> <<>>]

IsDict(j) == j.t = "dict"
IsList(j) == j.t = "list"
IsStr(j) == j.t = "str"

\* key in d
Has(d, k) == IsDict(d) /\ \E i \in 1..Len(d.c) : d.c[i][1] = k
\* d[key]
Get(d, k) == d.c[CHOOSE i \in 1..Len(d.c) : d.c[i][1] = k][2]
\* d.get(key, default)
GetOr(d, k, default) == IF Has(d, k) THEN Get(d, k) ELSE default
\* d[key] = v
Put(d, k, v) ==
    IF Has(d, k)
    THEN Dict([i \in 1..Len(d.c) |-> IF d.c[i][1] = k THEN <<k, v>> ELSE d.c[i]])
    ELSE Dict(Append(d.c, <<k, v>>))
Keys(d) == {d.c[i][1] : i \in 1..Len(d.c)}
\* bool(x) for a container or None
Truthy(j) == j.t # "none" /\ (j.t \in {"dict", "list"} => Len(j.c) > 0)

\* the value at a key path, and the tree with the value at a key path replaced
RECURSIVE GetIn(_, _)
GetIn(j, path) ==
    IF path = <<>> THEN j ELSE GetIn(Get(j, Head(path)), Tail(path))
RECURSIVE SetIn(_, _, _)
SetIn(j, path, v) ==
    IF path = <<>> THEN v
    ELSE Put(j, Head(path), SetIn(Get(j, Head(path)), Tail(path), v))

\* copy.deepcopy: an equal value that shares no object with its argument
AliasOf(v) == [val |-> v, alias |-> TRUE]
deepcopy(v) == [val |-> v, alias |-> FALSE]

-----------------------------------------------------------------------------
(* models.py: ComponentType *)

ComponentType ==
    {"schemas", "headers", "parameters", "responses", "requestBodies",
     "securitySchemes", "links", "callbacks"}

\* "/".join(parts): component names are dict keys, held unsplit; the one
\* name with a slash the documents use is "x/y"
Join(parts) ==
    IF Len(parts) = 1 THEN parts[1]
    ELSE IF parts = <<"x", "y">> THEN "x/y"
    ELSE "<other name>"

\* str.startswith("#/components/") on the "/"-segments
StartsWithComponents(p) == Len(p) >= 3 /\ p[1] = "#" /\ p[2] = "components"

from_ref_path(p) ==
    IF ~StartsWithComponents(p) THEN "None"
    ELSE IF Len(p) < 4 THEN "None"
    ELSE IF p[3] \in ComponentType THEN p[3] ELSE "None"

-----------------------------------------------------------------------------
(* resolver.py *)

\* ReferenceResolver.__init__: self.components and the eight sections
Components(d) == GetOr(d, "components", Dict(<<>>))
Section(d, ctype) == GetOr(Components(d), ctype, Dict(<<>>))

parse_component_ref(ref) ==
    IF ~StartsWithComponents(ref.s) THEN <<>>
    ELSE IF Len(ref.s) < 4 THEN <<>>
    ELSE IF from_ref_path(ref.s) = "None" THEN <<>>
    ELSE <<from_ref_path(ref.s), Join(SubSeq(ref.s, 4, Len(ref.s)))>>

\* an empty definition where the document has none
OrEmpty(d, ctype, name) == GetOr(Section(d, ctype), name, Dict(<<>>))
\* get_component: the definition, or None
get_component(d, ctype, name) == GetOr(Section(d, ctype), name, None)

\* _scan_for_refs: the $ref values appended to the queue, in order
RECURSIVE scan_for_refs(_)
RECURSIVE ScanItems(_, _)
RECURSIVE ScanHeaders(_, _)
RECURSIVE ScanList(_, _)
scan_for_refs(obj) ==
    IF IsDict(obj)
    THEN (IF Has(obj, "$ref") THEN <<Get(obj, "$ref")>> ELSE <<>>)
         \o ScanItems(obj.c, 1)
    ELSE IF IsList(obj) THEN ScanList(obj.c, 1)
    ELSE <<>>
ScanItems(kv, i) ==
    IF i > Len(kv) THEN <<>>
    ELSE (IF kv[i][1] = "headers" /\ IsDict(kv[i][2])
          THEN ScanHeaders(kv[i][2].c, 1) ELSE <<>>)
         \o scan_for_refs(kv[i][2])
         \o ScanItems(kv, i + 1)
ScanHeaders(kv, i) ==
    IF i > Len(kv) THEN <<>>
    ELSE (IF IsDict(kv[i][2]) /\ Has(kv[i][2], "$ref")
          THEN <<Get(kv[i][2], "$ref")>>
          ELSE IF IsDict(kv[i][2]) THEN scan_for_refs(kv[i][2])
          ELSE <<>>)
         \o ScanHeaders(kv, i + 1)
ScanList(items, i) ==
    IF i > Len(items) THEN <<>>
    ELSE scan_for_refs(items[i]) \o ScanList(items, i + 1)

\* resolved = ResolvedComponents(): eight empty sections
EmptyResolved == [ct \in ComponentType |-> Dict(<<>>)]
AddsOf(counts, key) == IF key \in DOMAIN counts THEN counts[key] ELSE 0

\* visited: Set[Tuple[str, str]] = set()
StaleVisited == visited
FreshVisited == {}

\* if visit_key in visited: continue
NeverVisited(visit_key, seen) == FALSE
IsVisited(visit_key, seen) == visit_key \in seen

\* ResolvedComponents.add on the traversal state st = [resolved, visited,
\* adds, shared]: the slot is assigned; adds counts the assignments
Bump(n) == IF n < AddCap THEN n + 1 ELSE n
add(st, ctype, name, copy) ==
    [st EXCEPT
        !.resolved[ctype] = Put(@, name, copy.val),
        !.adds = (<<ctype, name>> :> Bump(AddsOf(@, <<ctype, name>>))) @@ @,
        !.shared = IF copy.alias THEN @ \cup {<<"components", ctype, name>>}
                   ELSE @]

\* _resolve_security_schemes, lines 213-218: the security array that applies
InheritWhenEmpty(operation, d) ==
    IF Truthy(GetOr(operation, "security", None))
    THEN Get(operation, "security")
    ELSE GetOr(d, "security", List(<<>>))
EffectiveSecurity(operation, d) ==
    IF GetOr(operation, "security", None) = None
    THEN GetOr(d, "security", List(<<>>))
    ELSE Get(operation, "security")

\* the scheme names of the requirement objects, in iteration order
RECURSIVE SchemeNames(_, _)
SchemeNames(reqs, i) ==
    IF i > Len(reqs) THEN <<>>
    ELSE (IF IsDict(reqs[i])
          THEN [k \in 1..Len(reqs[i].c) |-> reqs[i].c[k][1]] ELSE <<>>)
         \o SchemeNames(reqs, i + 1)

\* _resolve_security_schemes, lines 225-238
RECURSIVE ResolveNames(_, _, _, _)
ResolveNames(d, names, i, st) ==
    IF i > Len(names) THEN st
    ELSE LET visit_key == <<"securitySchemes", names[i]>>
         IN IF IsVisited(visit_key, st.visited)
            THEN ResolveNames(d, names, i + 1, st)
            ELSE LET st1 == [st EXCEPT !.visited = @ \cup {visit_key}]
                     st2 == IF Has(Section(d, "securitySchemes"), names[i])
                            THEN add(st1, "securitySchemes", names[i],
                                     deepcopy(Get(Section(d, "securitySchemes"),
                                                  names[i])))
                            ELSE st1
                 IN ResolveNames(d, names, i + 1, st2)

resolve_security_schemes(d, operation, st) ==
    LET security == EffectiveSecurity(operation, d)
    IN IF ~Truthy(security) THEN st
       ELSE ResolveNames(d, SchemeNames(security.c, 1), 1, st)

\* resolve_all_refs, lines 97-102: the queue after the two seeding scans
SeedWholePathItem(path_item, operation) == scan_for_refs(path_item)
SeedRefs(path_item, operation) ==
    scan_for_refs(GetOr(path_item, "parameters", List(<<>>)))
    \o scan_for_refs(operation)

\* str.lower() on the method names the callers use
AsGiven(m) == m
Lower(m) ==
    CASE m = "GET" -> "get"
      [] m = "Get" -> "get"
      [] m = "DELETE" -> "delete"
      [] m = "POST" -> "post"
      [] OTHER -> m

-----------------------------------------------------------------------------
(* slicer.py and models.py: assembling the extracted document *)

\* ResolvedComponents.to_components_dict: the non-empty sections, in order
SectionOrder ==
    <<"schemas", "headers", "parameters", "responses", "requestBodies",
      "securitySchemes", "links", "callbacks">>
RECURSIVE ToSections(_, _)
ToSections(res, i) ==
    IF i > Len(SectionOrder) THEN <<>>
    ELSE (IF Truthy(res[SectionOrder[i]])
          THEN << <<SectionOrder[i], res[SectionOrder[i]]>> >> ELSE <<>>)
         \o ToSections(res, i + 1)
to_components_dict(res) == Dict(ToSections(res, 1))

\* extract, lines 61-65: the sliced path item before path-level parameters
WholePathItem(path_item, method_lower, opcopy) == path_item
SlicedPathItem(path_item, method_lower, opcopy) ==
    Dict(<< <<method_lower, opcopy>> >>)

DefaultInfo ==
    Dict(<< <<"title", Str("Extracted")>>, <<"version", Str("1.0.0")>> >>)

\* what a caller's write does to an object it was handed
Touch(j) ==
    IF IsDict(j) THEN Put(j, "x-touched", Bool(TRUE))
    ELSE IF IsList(j) THEN List(Append(j.c, Bool(TRUE)))
    ELSE j

-----------------------------------------------------------------------------
(* Documents the runs start from *)

SchemaNames == <<"A", "B", "C", "D", "E">>
Schemas == {SchemaNames[i] : i \in 1..NumSchemas}
EdgeTargets == Schemas \cup {"none", "Missing"}

Ref(ctype, name) == StrParts(<<"#", "components", ctype, name>>)
RefObj(r) == Dict(<< <<"$ref", r>> >>)
Opt(cond, k, v) == IF cond THEN << <<k, v>> >> ELSE <<>>

SchemaDef(target) ==
    Dict(<< <<"type", Str("object")>> >>
         \o Opt(target # "none", "properties",
                Dict(<< <<"next", RefObj(Ref("schemas", target))>> >>)))

RootRefs ==
    [A        |-> Ref("schemas", "A"),
     slash    |-> StrParts(<<"#", "components", "schemas", "x", "y">>),
     missing  |-> Ref("schemas", "Missing"),
     external |-> StrParts(<<"other.yaml#", "components", "schemas", "A">>),
     unknown  |-> Ref("unknown", "A"),
     short    |-> StrParts(<<"#", "components", "schemas">>),
     example  |-> Ref("examples", "E"),
     scheme   |-> Ref("securitySchemes", "S")]

SecurityOf(kind) ==
    CASE kind = "empty" -> List(<<>>)
      [] kind = "S" -> List(<< Dict(<< <<"S", List(<<>>)>> >>) >>)
      [] kind = "ST" -> List(<< Dict(<< <<"S", List(<<>>)>>,
                                        <<"T", List(<<>>)>> >>) >>)
      [] kind = "T" -> List(<< Dict(<< <<"T", List(<<>>)>> >>) >>)
      [] kind = "UX" -> List(<< Dict(<< <<"U", List(<<>>)>> >>),
                                Dict(<< <<"Undefined", List(<<>>)>> >>) >>)

Response(schemaRef, hdr) ==
    Dict(<< <<"description", Str("OK")>> >>
         \o Opt(hdr, "headers",
                Dict(<< <<"X-Rate-Limit", RefObj(Ref("headers", "H"))>> >>))
         \o << <<"content",
                 Dict(<< <<"application/json",
                           Dict(<< <<"schema", RefObj(schemaRef)>> >>)>> >>)>> >>)

Operation(id, schemaRef, hdr, sec) ==
    Dict(<< <<"operationId", Str(id)>> >>
         \o Opt(sec # "absent", "security", SecurityOf(sec))
         \o << <<"responses", Dict(<< <<"200", Response(schemaRef, hdr)>> >>)>> >>)

\* an operation whose only response is a reference to components.responses
OperationByRef(id, sec) ==
    Dict(<< <<"operationId", Str(id)>> >>
         \o Opt(sec # "absent", "security", SecurityOf(sec))
         \o << <<"responses",
                 Dict(<< <<"200", RefObj(Ref("responses", "R"))>> >>)>> >>)

PathParams(kind) ==
    IF kind = "empty" THEN List(<<>>)
    ELSE List(<< RefObj(Ref("parameters", "P")) >>)

PlainScheme ==
    Dict(<< <<"type", Str("http")>>, <<"scheme", Str("bearer")>> >>)

\* p = [edges, root, hdr, pparams, opSec, globSec, schemeS, info, resp]
MkDoc(p) ==
    Dict(<< <<"openapi", Str("3.0.3")>> >>
         \o Opt(p.info, "info",
                Dict(<< <<"title", Str("API")>>, <<"version", Str("1")>> >>))
         \o Opt(p.globSec # "absent", "security", SecurityOf(p.globSec))
         \o << <<"paths", Dict(<<
                 <<"/u", Dict(Opt(p.pparams # "absent", "parameters",
                                  PathParams(p.pparams))
                              \o << <<"get",
                                      IF p.resp = "ref"
                                      THEN OperationByRef("getU", p.opSec)
                                      ELSE Operation("getU", RootRefs[p.root],
                                                     p.hdr, p.opSec)>>,
                                    <<"delete", Operation("delU",
                                                Ref("schemas", "OnlyDelete"),
                                                FALSE, "absent")>> >>)>>,
                 <<"/v", Dict(<< <<"get", Operation("getV",
                                          Ref("schemas", "OnlyV"),
                                          FALSE, "absent")>> >>)>> >>)>>,
               <<"components", Dict(
                 Opt(p.resp = "ref", "responses",
                     Dict(<< <<"R", Response(RootRefs[p.root], p.hdr)>> >>))
                 \o <<
                 <<"schemas", Dict(
                     [i \in 1..NumSchemas |->
                         <<SchemaNames[i], SchemaDef(p.edges[SchemaNames[i]])>>]
                     \o << <<"x/y", SchemaDef("A")>>,
                           <<"OnlyDelete", SchemaDef("none")>>,
                           <<"OnlyV", SchemaDef("none")>> >>)>>,
                 <<"headers", Dict(<<
                     <<"H", Dict(<< <<"description", Str("limit")>>,
                                    <<"schema", RefObj(Ref("schemas", "B"))>> >>)>>
                   >>)>>,
                 <<"parameters", Dict(<<
                     <<"P", Dict(<< <<"name", Str("id")>>, <<"in", Str("path")>>,
                                    <<"schema", RefObj(Ref("schemas", "B"))>> >>)>>
                   >>)>>,
                 <<"securitySchemes", Dict(<<
                     <<"S", IF p.schemeS = "plain" THEN PlainScheme
                            ELSE RefObj(Ref("securitySchemes", "T"))>>,
                     <<"T", PlainScheme>>,
                     <<"U", PlainScheme>> >>)>>,
                 <<"examples", Dict(<<
                     <<"E", Dict(<< <<"value", Str("sample")>> >>)>> >>)>>
               >>)>> >>)

Chain == [s \in Schemas |-> IF s = "A" THEN "B" ELSE "none"]
DefaultParams ==
    [edges |-> Chain, root |-> "A", hdr |-> FALSE, pparams |-> "absent",
     opSec |-> "absent", globSec |-> "absent", schemeS |-> "plain",
     info |-> TRUE, resp |-> "inline"]

\* reference graphs among the schemas: chains, self-references, cycles
GraphParams ==
    {[DefaultParams EXCEPT !.edges = e, !.hdr = TRUE] :
        e \in [Schemas -> EdgeTargets]}
\* what the operation and its path item refer to
ShapeParams ==
    {[DefaultParams EXCEPT !.root = r, !.hdr = h, !.pparams = pp] :
        r \in DOMAIN RootRefs, h \in BOOLEAN,
        pp \in {"absent", "empty", "ref"}}
\* security requirements of the operation and of the document
SecurityParams ==
    {[DefaultParams EXCEPT !.opSec = os, !.globSec = gs, !.schemeS = ss,
                           !.root = r] :
        os \in {"absent", "empty", "S", "ST", "UX"},
        gs \in {"absent", "T"}, ss \in {"plain", "ref"},
        r \in {"A", "scheme"}}
InfoParams == {[DefaultParams EXCEPT !.info = FALSE]}
\* the operation's response given inline or as a reference to a component
ResponseParams ==
    {[DefaultParams EXCEPT !.resp = "ref", !.root = r, !.hdr = h] :
        r \in {"A", "missing"}, h \in BOOLEAN}

SliceParams ==
    GraphParams \cup ShapeParams \cup SecurityParams \cup InfoParams
    \cup ResponseParams

LookupPaths == {"/u", "/v", "/missing"}
LookupMethods == {"GET", "get", "Get", "DELETE", "POST"}

-----------------------------------------------------------------------------
(* batch_processor.py *)

\* CSVIndexManager.__init__, and no index file
NoCsv ==
    /\ csv_exists = FALSE
    /\ csv_rows = <<>>
    /\ known_entries = {}
    /\ csv_initialized = FALSE
    /\ csv_lock = 0
    /\ csv_threads = <<>>

\* BatchProcessor.__init__
NoBatch ==
    /\ batch_pc = "idle"
    /\ endpoints = <<>>
    /\ batch_request = [concurrency |-> 4, dry_run |-> FALSE,
                        generate_csv |-> FALSE, output_format |-> "yaml"]
    /\ files = {}
    /\ NoCsv
    /\ futures = <<>>
    /\ processed = <<>>
    /\ extracted_count = 0
    /\ failed_count = 0
    /\ failed_endpoints = <<>>
    /\ output_files = <<>>
    /\ batch_result = None

-----------------------------------------------------------------------------
(* The slicer and resolver as a state machine *)

InitSlice ==
    /\ mode = "slice"
    /\ \E p \in SliceParams : doc = MkDoc(p)
    /\ doc0 = doc
    /\ \/ argPath = "/u" /\ argMethod = "GET"
       \/ /\ doc = MkDoc(DefaultParams)
          /\ argPath \in LookupPaths
          /\ argMethod \in LookupMethods
    /\ pc = "idle"
    /\ calls = 0
    /\ extracted = None
    /\ shared = {}
    /\ resolved = EmptyResolved
    /\ visited = {}
    /\ refs_to_process = <<>>
    /\ adds = <<>>
    /\ returned = <<>>
    /\ mutated = FALSE
    /\ original_doc = None
    /\ next_phase = 0
    /\ ran = <<>>
    /\ vresult = None
    /\ conv_request = None
    /\ oas_validator = "absent"
    /\ result_2 = None
    /\ NoBatch

KeyError == [kind |-> "KeyError", doc |-> None]
Ok(d) == [kind |-> "ok", doc |-> d]

\* extract, lines 47-70: lookups, document shell, path-level parameters
ExtractCall ==
    /\ mode = "slice"
    /\ pc = "idle"
    /\ calls < MaxCalls
    /\ LET paths == GetOr(doc, "paths", Dict(<<>>))
           method_lower == Lower(argMethod)
       IN IF ~Has(paths, argPath) \/ ~Has(Get(paths, argPath), method_lower)
          THEN /\ returned' = Append(returned, KeyError)
               /\ calls' = calls + 1
               /\ UNCHANGED <<pc, extracted, shared>>
          ELSE LET path_item == Get(paths, argPath)
                   info == IF Has(doc, "info") THEN deepcopy(Get(doc, "info"))
                           ELSE deepcopy(DefaultInfo)
                   op == deepcopy(Get(path_item, method_lower))
                   item == SlicedPathItem(path_item, method_lower, op.val)
                   params == IF Has(path_item, "parameters")
                             THEN deepcopy(Get(path_item, "parameters"))
                             ELSE deepcopy(None)
                   item2 == IF Has(path_item, "parameters")
                            THEN Put(item, "parameters", params.val) ELSE item
               IN /\ extracted' = Dict(<<
                        <<"openapi", GetOr(doc, "openapi", Str("3.0.0"))>>,
                        <<"info", info.val>>,
                        <<"paths", Dict(<< <<argPath, item2>> >>)>> >>)
                  /\ shared' =
                        (IF info.alias /\ Has(doc, "info")
                         THEN {<<"info">>} ELSE {})
                        \cup (IF op.alias
                              THEN {<<"paths", argPath, method_lower>>} ELSE {})
                        \cup (IF params.alias /\ Has(path_item, "parameters")
                              THEN {<<"paths", argPath, "parameters">>} ELSE {})
                  /\ pc' = "resolve"
                  /\ UNCHANGED <<returned, calls>>
    /\ UNCHANGED <<validatorVars, converterVars>>
    /\ UNCHANGED batchVars
    /\ UNCHANGED <<mode, doc, doc0, argPath, argMethod, resolved, visited,
                   refs_to_process, adds, mutated>>

\* resolve_all_refs, lines 79-105: lookups, fresh state, seeding scans,
\* security schemes by name
ResolveStart ==
    /\ pc = "resolve"
    /\ LET paths == GetOr(doc, "paths", Dict(<<>>))
           method_lower == Lower(argMethod)
       IN IF ~Has(paths, argPath) \/ ~Has(Get(paths, argPath), method_lower)
          THEN /\ returned' = Append(returned, KeyError)
               /\ calls' = calls + 1
               /\ pc' = "idle"
               /\ UNCHANGED <<resolved, visited, refs_to_process, adds, shared>>
          ELSE LET path_item == Get(paths, argPath)
                   operation == Get(path_item, method_lower)
                   st0 == [resolved |-> EmptyResolved, visited |-> FreshVisited,
                           adds |-> <<>>, shared |-> shared]
                   st == resolve_security_schemes(doc, operation, st0)
               IN /\ refs_to_process' = SeedRefs(path_item, operation)
                  /\ resolved' = st.resolved
                  /\ visited' = st.visited
                  /\ adds' = st.adds
                  /\ shared' = st.shared
                  /\ pc' = "bfs"
                  /\ UNCHANGED <<returned, calls>>
    /\ UNCHANGED <<validatorVars, converterVars>>
    /\ UNCHANGED batchVars
    /\ UNCHANGED <<mode, doc, doc0, argPath, argMethod, extracted, mutated>>

\* resolve_all_refs, lines 108-128: one iteration of the BFS loop
BfsStep ==
    /\ pc = "bfs"
    /\ refs_to_process # <<>>
    /\ LET ref_string == Head(refs_to_process)
           rest == Tail(refs_to_process)
           parsed == parse_component_ref(ref_string)
       IN IF parsed = <<>> \/ IsVisited(parsed, visited)
          THEN /\ refs_to_process' = rest
               /\ UNCHANGED <<resolved, visited, adds, shared>>
          ELSE LET component_def == get_component(doc, parsed[1], parsed[2])
                   st0 == [resolved |-> resolved,
                           visited |-> visited \cup {parsed},
                           adds |-> adds, shared |-> shared]
                   st == IF component_def # None
                         THEN add(st0, parsed[1], parsed[2],
                                  deepcopy(component_def))
                         ELSE st0
               IN /\ refs_to_process' =
                        IF component_def # None
                        THEN rest \o scan_for_refs(component_def) ELSE rest
                  /\ resolved' = st.resolved
                  /\ visited' = st.visited
                  /\ adds' = st.adds
                  /\ shared' = st.shared
    /\ UNCHANGED <<validatorVars, converterVars>>
    /\ UNCHANGED batchVars
    /\ UNCHANGED <<mode, doc, doc0, argPath, argMethod, pc, calls, extracted,
                   returned, mutated>>

\* resolve_all_refs line 130 and extract lines 73-80: the queue is drained,
\* the resolved set is returned and becomes the components section
ExtractReturn ==
    /\ pc = "bfs"
    /\ refs_to_process = <<>>
    /\ LET components == to_components_dict(resolved)
           result == IF Truthy(components)
                     THEN Put(extracted, "components", components)
                     ELSE extracted
       IN /\ extracted' = result
          /\ returned' = Append(returned, Ok(result))
    /\ calls' = calls + 1
    /\ pc' = "idle"
    /\ UNCHANGED <<validatorVars, converterVars>>
    /\ UNCHANGED batchVars
    /\ UNCHANGED <<mode, doc, doc0, argPath, argMethod, shared, resolved,
                   visited, refs_to_process, adds, mutated>>

\* the objects of a returned document: info, the operation, the path-level
\* parameters and each component definition
Pieces(d) ==
    {<<"info">>}
    \cup {<<"paths", argPath, k>> : k \in Keys(Get(Get(d, "paths"), argPath))}
    \cup UNION {{<<"components", ct, n>> : n \in Keys(Section(d, ct))} :
                 ct \in Keys(Components(d))}

\* the caller writes into one object of the document extract returned; an
\* object the source document also holds changes there as well
MutateOutput ==
    /\ mode = "slice"
    /\ pc = "idle"
    /\ ~mutated
    /\ extracted # None
    /\ \E piece \in Pieces(extracted) :
         LET v == Touch(GetIn(extracted, piece))
         IN /\ extracted' = SetIn(extracted, piece, v)
            /\ doc' = IF piece \in shared THEN SetIn(doc, piece, v) ELSE doc
    /\ mutated' = TRUE
    /\ UNCHANGED <<validatorVars, converterVars>>
    /\ UNCHANGED batchVars
    /\ UNCHANGED <<mode, doc0, argPath, argMethod, pc, calls, shared, resolved,
                   visited, refs_to_process, adds, returned>>

-----------------------------------------------------------------------------
(* validator.py *)

Passed(phase) == [phase |-> phase, passed |-> TRUE, error_message |-> <<>>]
Failed(phase, message) ==
    [phase |-> phase, passed |-> FALSE, error_message |-> message]

\* component_lookups of _validate_reference_resolution: the eight sections
component_lookups(components, comp_type) ==
    IF comp_type \in ComponentType
    THEN GetOr(components, comp_type, Dict(<<>>))
    ELSE Dict(<<>>)

\* find_unresolved_refs: the first unresolved $ref of the tree, or None
RECURSIVE find_unresolved_refs(_, _)
RECURSIVE FirstUnresolved(_, _, _)
find_unresolved_refs(obj, components) ==
    IF IsDict(obj)
    THEN IF /\ Has(obj, "$ref")
            /\ StartsWithComponents(Get(obj, "$ref").s)
            /\ Len(Get(obj, "$ref").s) >= 4
            /\ ~Has(component_lookups(components, Get(obj, "$ref").s[3]),
                    Join(SubSeq(Get(obj, "$ref").s, 4, Len(Get(obj, "$ref").s))))
         THEN Get(obj, "$ref")
         ELSE FirstUnresolved([i \in 1..Len(obj.c) |-> obj.c[i][2]], 1,
                              components)
    ELSE IF IsList(obj) THEN FirstUnresolved(obj.c, 1, components)
    ELSE None
FirstUnresolved(items, i, components) ==
    IF i > Len(items) THEN None
    ELSE LET result == find_unresolved_refs(items[i], components)
         IN IF result # None THEN result
            ELSE FirstUnresolved(items, i + 1, components)

\* Phase 4
PathsOnlyResolution(d) ==
    IF find_unresolved_refs(GetOr(d, "paths", Dict(<<>>)),
                            GetOr(d, "components", Dict(<<>>))) # None
    THEN Failed(4, <<"Reference not found in components">>
                   \o find_unresolved_refs(GetOr(d, "paths", Dict(<<>>)),
                         GetOr(d, "components", Dict(<<>>))).s)
    ELSE Passed(4)
validate_reference_resolution(d) ==
    IF ~IsDict(d) THEN Failed(4, <<"exception">>) ELSE
    LET components == GetOr(d, "components", Dict(<<>>))
        in_paths == find_unresolved_refs(GetOr(d, "paths", Dict(<<>>)),
                                         components)
        in_components == find_unresolved_refs(components, components)
    IN IF in_paths # None
       THEN Failed(4, <<"Reference not found in components">> \o in_paths.s)
       ELSE IF in_components # None
       THEN Failed(4, <<"Reference not found in components">>
                      \o in_components.s)
       ELSE Passed(4)

\* dict keys that are not strings (a YAML response code written unquoted)
NonStringKeys == {"<int 200>"}
\* str.split(".") on the version strings the documents and requests use
SplitDot(v) ==
    CASE v = "3.0.3" -> <<"3", "0", "3">>
      [] v = "3.0.0" -> <<"3", "0", "0">>
      [] v = "3.1.0" -> <<"3", "1", "0">>
      [] v = "3.2.0" -> <<"3", "2", "0">>
      [] v = "2.0.0" -> <<"2", "0", "0">>
      [] v = "3.0" -> <<"3", "0">>
      [] v = "3.0.x" -> <<"3", "0", "x">>
      [] v = "3.1.x" -> <<"3", "1", "x">>
      [] OTHER -> <<v>>

\* the first failure among the results of a sequence of checks, or None
RECURSIVE FirstFailure(_, _)
FirstFailure(results, i) ==
    IF i > Len(results) THEN None
    ELSE IF results[i] # None THEN results[i]
    ELSE FirstFailure(results, i + 1)

\* Phase 1
\* the three keys present, whatever paths holds
KeysPresent(d) ==
    IF ~IsDict(d) THEN Failed(1, <<"Document is not a dictionary">>)
    ELSE IF ~Has(d, "openapi") THEN Failed(1, <<"Missing 'openapi' field">>)
    ELSE IF ~Has(d, "info") THEN Failed(1, <<"Missing 'info' field">>)
    ELSE IF ~Has(d, "paths")
    THEN Failed(1, <<"Missing or invalid 'paths' field">>)
    ELSE Passed(1)
validate_file_structure(d) ==
    IF ~IsDict(d) THEN Failed(1, <<"Document is not a dictionary">>)
    ELSE IF ~Has(d, "openapi") THEN Failed(1, <<"Missing 'openapi' field">>)
    ELSE IF ~Has(d, "info") THEN Failed(1, <<"Missing 'info' field">>)
    ELSE IF ~Has(d, "paths") \/ ~IsDict(Get(d, "paths"))
    THEN Failed(1, <<"Missing or invalid 'paths' field">>)
    ELSE Passed(1)

\* Phase 2
Methods == <<"get", "post", "put", "delete", "patch", "options", "head", "trace">>
OperationCheck(path_item, path) ==
    LET bad(i) ==
            IF /\ Has(path_item, Methods[i])
               /\ \/ ~Has(Get(path_item, Methods[i]), "responses")
                  \/ ~Truthy(Get(Get(path_item, Methods[i]), "responses"))
            THEN Failed(2, <<"Operation missing 'responses' field",
                             Methods[i], path>>)
            ELSE None
        first == FirstFailure([i \in 1..Len(Methods) |-> bad(i)], 1)
    IN IF ~IsDict(path_item)
       THEN Failed(2, <<"Path is not a valid path item object", path>>)
       ELSE IF first # None THEN first
       ELSE IF ~\E i \in 1..Len(Methods) : Has(path_item, Methods[i])
       THEN Failed(2, <<"Path has no valid HTTP methods", path>>)
       ELSE None
validate_operation_integrity(d) ==
    IF ~IsDict(d) THEN Failed(2, <<"exception">>)
    ELSE LET paths == GetOr(d, "paths", Dict(<<>>))
         IN IF ~Truthy(paths)
            THEN Failed(2, <<"No paths defined in document">>)
            ELSE IF ~IsDict(paths) THEN Failed(2, <<"exception">>)
            ELSE LET first == FirstFailure(
                        [i \in 1..Len(paths.c) |->
                            OperationCheck(paths.c[i][2], paths.c[i][1])], 1)
                 IN IF first # None THEN first ELSE Passed(2)

\* Phase 3
ResponseCheck(code, response) ==
    IF code \in NonStringKeys
    THEN Failed(3, <<"Invalid response code (must be string)", code>>)
    ELSE IF ~IsDict(response)
    THEN Failed(3, <<"Response is not an object", code>>)
    ELSE IF ~Has(response, "description")
    THEN Failed(3, <<"Response missing 'description' field", code>>)
    ELSE None
ResponsesCheck(method_name, operation, path) ==
    IF IsDict(operation) /\ Has(operation, "responses")
    THEN LET responses == Get(operation, "responses")
         IN IF ~Truthy(responses)
            THEN Failed(3, <<"No responses defined", method_name, path>>)
            ELSE IF ~IsDict(responses) THEN Failed(3, <<"exception">>)
            ELSE FirstFailure([i \in 1..Len(responses.c) |->
                                 ResponseCheck(responses.c[i][1],
                                               responses.c[i][2])], 1)
    ELSE None
validate_response_integrity(d) ==
    IF ~IsDict(d) \/ ~IsDict(GetOr(d, "paths", Dict(<<>>)))
    THEN Failed(3, <<"exception">>)
    ELSE LET paths == GetOr(d, "paths", Dict(<<>>))
             item(i) == paths.c[i][2]
             first == FirstFailure(
                [i \in 1..Len(paths.c) |->
                    IF ~IsDict(item(i)) THEN Failed(3, <<"exception">>)
                    ELSE FirstFailure(
                            [k \in 1..Len(item(i).c) |->
                                ResponsesCheck(item(i).c[k][1], item(i).c[k][2],
                                               paths.c[i][1])], 1)], 1)
         IN IF first # None THEN first ELSE Passed(3)

\* Phase 5
validate_component_completeness(d) == Passed(5)

\* _collect_all_refs and _check_component_exists
RECURSIVE collect_all_refs(_)
collect_all_refs(obj) ==
    IF IsDict(obj)
    THEN (IF Has(obj, "$ref") THEN {Get(obj, "$ref")} ELSE {})
         \cup UNION {collect_all_refs(obj.c[i][2]) : i \in 1..Len(obj.c)}
    ELSE IF IsList(obj)
    THEN UNION {collect_all_refs(obj.c[i]) : i \in 1..Len(obj.c)}
    ELSE {}
check_component_exists(ref, d) ==
    IF ~StartsWithComponents(ref.s) THEN TRUE
    ELSE IF Len(ref.s) < 4 THEN FALSE
    ELSE Has(GetOr(GetOr(d, "components", Dict(<<>>)), ref.s[3], Dict(<<>>)),
             Join(SubSeq(ref.s, 4, Len(ref.s))))

\* Phase 6
MethodCheck(path, path_item, original_paths) ==
    IF ~Has(original_paths, path)
    THEN Failed(6, <<"Path not found in original document", path>>)
    ELSE IF ~IsDict(path_item) THEN Failed(6, <<"exception">>)
    ELSE LET absent(k) ==
                IF /\ path_item.c[k][1] # "parameters"
                   /\ ~Has(Get(original_paths, path), path_item.c[k][1])
                THEN Failed(6, <<"Method not found in original",
                                 path_item.c[k][1], path>>)
                ELSE None
         IN FirstFailure([k \in 1..Len(path_item.c) |-> absent(k)], 1)
PathsCheck(extracted_paths, original_paths) ==
    IF ~IsDict(extracted_paths) THEN Failed(6, <<"exception">>)
    ELSE FirstFailure([i \in 1..Len(extracted_paths.c) |->
                          MethodCheck(extracted_paths.c[i][1],
                                      extracted_paths.c[i][2],
                                      original_paths)], 1)
validate_payload_equivalence(d, original) ==
    IF ~Truthy(original) THEN Passed(6)
    ELSE IF ~IsDict(d) THEN Failed(6, <<"exception">>)
    ELSE IF \E r \in collect_all_refs(d) : ~check_component_exists(r, d)
    THEN Failed(6, <<"Missing components in extracted document">>)
    ELSE IF PathsCheck(GetOr(d, "paths", Dict(<<>>)),
                       GetOr(original, "paths", Dict(<<>>))) # None
    THEN PathsCheck(GetOr(d, "paths", Dict(<<>>)),
                    GetOr(original, "paths", Dict(<<>>)))
    ELSE Passed(6)

\* Phase 7
validate_version(d) ==
    IF ~IsDict(d) THEN Failed(7, <<"exception">>)
    ELSE LET openapi_field == GetOr(d, "openapi", Str(""))
         IN IF ~IsStr(openapi_field)
            THEN Failed(7, <<"Invalid 'openapi' field format">>)
            ELSE LET parts == SplitDot(Join(openapi_field.s))
                 IN IF Len(parts) < 2
                    THEN Failed(7, <<"Invalid OAS version format">>)
                    ELSE IF parts[1] = "3" /\ parts[2] \in {"0", "1"}
                    THEN Passed(7)
                    ELSE Failed(7, <<"Unsupported OAS version">>)

\* the phase functions by number
RunPhase(phase, d, original) ==
    CASE phase = 1 -> validate_file_structure(d)
      [] phase = 2 -> validate_operation_integrity(d)
      [] phase = 3 -> validate_response_integrity(d)
      [] phase = 4 -> validate_reference_resolution(d)
      [] phase = 5 -> validate_component_completeness(d)
      [] phase = 6 -> validate_payload_equivalence(d, original)
      [] phase = 7 -> validate_version(d)

\* validate: if not result.passed: return result
NeverStops(result) == FALSE
StopsAt(result) == ~result.passed

\* validate_converted_document; external is what openapi-spec-validator
\* reports ("absent" when the package is not installed)
HasAny(d, keys) == \E k \in keys : Has(d, k)
TopLevelSchemas(d) ==
    GetOr(GetOr(d, "components", Dict(<<>>)), "schemas", Dict(<<>>))
MajorMinor(parts) == SubSeq(parts, 1, IF Len(parts) < 2 THEN Len(parts) ELSE 2)
SchemaErrors(d, message, keys) ==
    LET schemas == TopLevelSchemas(d)
        hit == SelectSeq(schemas.c,
                  LAMBDA e : IsDict(e[2]) /\ HasAny(e[2], keys))
    IN [i \in 1..Len(hit) |-> <<message, hit[i][1]>>]
validate_converted_document(d, target_version, external) ==
    IF ~IsDict(d) THEN << <<"Document must be a dictionary">> >>
    ELSE IF ~Has(d, "openapi")
    THEN << <<"Missing required 'openapi' field">> >>
    ELSE IF MajorMinor(SplitDot(Join(Get(d, "openapi").s)))
            # MajorMinor(SplitDot(target_version))
    THEN << <<"Document version does not match target">> >>
    ELSE IF ~Has(d, "info") THEN << <<"Missing required 'info' field">> >>
    ELSE IF ~Has(d, "paths") THEN << <<"Missing required 'paths' field">> >>
    ELSE (IF target_version = "3.0.x"
          THEN (IF Has(d, "webhooks")
                THEN << <<"Webhooks found in document but target is 3.0.x">> >>
                ELSE <<>>)
               \o SchemaErrors(d, "contains JSON Schema conditionals",
                               {"if", "then", "else"})
          ELSE SchemaErrors(d, "still contains 'nullable'", {"nullable"}))
         \o (IF external = "invalid"
             THEN << <<"OpenAPI specification validation failed">> >>
             ELSE <<>>)

-----------------------------------------------------------------------------
(* converter.py *)

Del(d, k) == Dict(SelectSeq(d.c, LAMBDA e : e[1] # k))
InList(v, l) == \E i \in 1..Len(l.c) : l.c[i] = v

\* process_schema, the rewrite of one schema object
nullable_to_type_array(schema) ==
    IF GetOr(schema, "nullable", None) = Bool(TRUE)
    THEN LET current_type == GetOr(schema, "type", Str("object"))
             typed ==
                IF IsStr(current_type)
                THEN Put(schema, "type", List(<<current_type, Str("null")>>))
                ELSE IF IsList(current_type) /\ ~InList(Str("null"), current_type)
                THEN Put(schema, "type",
                         List(Append(current_type.c, Str("null"))))
                ELSE schema
         IN Del(typed, "nullable")
    ELSE schema
\* the array's first type, without the nullable key
FirstTypeOnly(schema) ==
    IF IsList(GetOr(schema, "type", None))
       /\ InList(Str("null"), Get(schema, "type"))
       /\ Get(schema, "type").c[1] # Str("null")
    THEN Put(schema, "type", Get(schema, "type").c[1])
    ELSE schema
type_array_to_nullable(schema) ==
    IF IsList(GetOr(schema, "type", None))
       /\ InList(Str("null"), Get(schema, "type"))
    THEN LET non_null_types ==
                SelectSeq(Get(schema, "type").c, LAMBDA t : t # Str("null"))
             typed == IF non_null_types # <<>>
                      THEN Put(schema, "type", non_null_types[1])
                      ELSE schema
         IN Put(typed, "nullable", Bool(TRUE))
    ELSE schema

\* process_schema: the rewrite, then the nested schemas
NestedKeys == {"properties", "items", "allOf", "oneOf", "anyOf"}
RECURSIVE process_schema(_, _)
process_schema(schema, rule) ==
    IF ~IsDict(schema) THEN schema
    ELSE LET s1 == IF rule = "nullable_to_type_array"
                   THEN nullable_to_type_array(schema)
                   ELSE type_array_to_nullable(schema)
             nested(k, v) ==
                IF k \notin NestedKeys THEN v
                ELSE IF IsDict(v) /\ k = "properties"
                THEN Dict([j \in 1..Len(v.c) |->
                            <<v.c[j][1], process_schema(v.c[j][2], rule)>>])
                ELSE IF IsDict(v) THEN process_schema(v, rule)
                ELSE IF IsList(v)
                THEN List([j \in 1..Len(v.c) |-> process_schema(v.c[j], rule)])
                ELSE v
         IN Dict([i \in 1..Len(s1.c) |->
                    <<s1.c[i][1], nested(s1.c[i][1], s1.c[i][2])>>])

\* the schemas the nullable rules visit: components.schemas and the
\* parameters of each operation
HasSchemas(d) ==
    Has(d, "components") /\ Has(Get(d, "components"), "schemas")
OperationParameters(operation, rule) ==
    IF IsDict(operation) /\ Has(operation, "parameters")
    THEN LET params == Get(operation, "parameters")
             one(parameter) ==
                IF IsDict(parameter) /\ Has(parameter, "schema")
                THEN Put(parameter, "schema",
                         process_schema(Get(parameter, "schema"), rule))
                ELSE parameter
         IN Put(operation, "parameters",
                List([j \in 1..Len(params.c) |-> one(params.c[j])]))
    ELSE operation
PathParameters(d, rule) ==
    IF Has(d, "paths")
    THEN LET paths == Get(d, "paths")
             item(path_item) ==
                IF IsDict(path_item)
                THEN Dict([k \in 1..Len(path_item.c) |->
                            <<path_item.c[k][1],
                              OperationParameters(path_item.c[k][2], rule)>>])
                ELSE path_item
         IN Put(d, "paths", Dict([i \in 1..Len(paths.c) |->
                                    <<paths.c[i][1], item(paths.c[i][2])>>]))
    ELSE d
\* _apply_discriminator_property_to_mapping
RECURSIVE MappingOf(_, _, _)
MappingOf(items, i, mapping) ==
    IF i > Len(items) THEN mapping
    ELSE MappingOf(items, i + 1,
            IF Has(items[i], "$ref")
            THEN LET ref == Get(items[i], "$ref")
                 IN Put(mapping, ref.s[Len(ref.s)], ref)
            ELSE mapping)
discriminator_property_to_mapping(schema) ==
    IF /\ IsDict(schema) /\ Has(schema, "discriminator")
       /\ IsDict(Get(schema, "discriminator"))
       /\ Has(Get(schema, "discriminator"), "propertyName")
    THEN LET mapping == IF Has(schema, "oneOf")
                        THEN MappingOf(Get(schema, "oneOf").c, 1, Dict(<<>>))
                        ELSE Dict(<<>>)
         IN IF Truthy(mapping)
            THEN Put(schema, "discriminator",
                     Put(Get(schema, "discriminator"), "mapping", mapping))
            ELSE schema
    ELSE schema
\* _apply_discriminator_mapping_to_property
discriminator_mapping_to_property(schema) ==
    IF /\ IsDict(schema) /\ Has(schema, "discriminator")
       /\ IsDict(Get(schema, "discriminator"))
       /\ Has(Get(schema, "discriminator"), "mapping")
    THEN LET discriminator == Get(schema, "discriminator")
             named == IF Has(discriminator, "propertyName") THEN discriminator
                      ELSE Put(discriminator, "propertyName", Str("type"))
         IN Put(schema, "discriminator", Del(named, "mapping"))
    ELSE schema

\* for schema in doc["components"]["schemas"].values(): one rule on each
SchemaRule(schema, rule) ==
    CASE rule = "discriminator_property_to_mapping" ->
            discriminator_property_to_mapping(schema)
      [] rule = "discriminator_mapping_to_property" ->
            discriminator_mapping_to_property(schema)
      [] OTHER -> process_schema(schema, rule)
MapSchemas(d, rule) ==
    IF HasSchemas(d)
    THEN LET schemas == Get(Get(d, "components"), "schemas")
         IN SetIn(d, <<"components", "schemas">>,
                  Dict([i \in 1..Len(schemas.c) |->
                          <<schemas.c[i][1], SchemaRule(schemas.c[i][2], rule)>>]))
    ELSE d
apply_nullable_to_type_array(d) ==
    PathParameters(MapSchemas(d, "nullable_to_type_array"),
                   "nullable_to_type_array")
apply_type_array_to_nullable(d) ==
    PathParameters(MapSchemas(d, "type_array_to_nullable"),
                   "type_array_to_nullable")
apply_discriminator_property_to_mapping(d) ==
    MapSchemas(d, "discriminator_property_to_mapping")
apply_discriminator_mapping_to_property(d) ==
    MapSchemas(d, "discriminator_mapping_to_property")

\* _remove_mutual_tls
HasSecuritySchemes(d) ==
    Has(d, "components") /\ Has(Get(d, "components"), "securitySchemes")
IsMutualTLS(e) ==
    IsDict(e[2]) /\ GetOr(e[2], "type", None) = Str("mutualTLS")
mutual_tls_removed(d) ==
    /\ HasSecuritySchemes(d)
    /\ \E i \in 1..Len(Get(Get(d, "components"), "securitySchemes").c) :
          IsMutualTLS(Get(Get(d, "components"), "securitySchemes").c[i])
remove_mutual_tls(d) ==
    IF HasSecuritySchemes(d)
    THEN SetIn(d, <<"components", "securitySchemes">>,
               Dict(SelectSeq(Get(Get(d, "components"), "securitySchemes").c,
                              LAMBDA e : ~IsMutualTLS(e))))
    ELSE d

\* _move_license_identifier
license_moved(d) ==
    /\ Has(d, "info") /\ IsDict(Get(d, "info"))
    /\ Has(Get(d, "info"), "license")
    /\ IsDict(Get(Get(d, "info"), "license"))
    /\ Has(Get(Get(d, "info"), "license"), "identifier")
move_license_identifier(d) ==
    IF license_moved(d)
    THEN LET license_obj == Get(Get(d, "info"), "license")
             named == IF Has(license_obj, "name") THEN license_obj
                      ELSE Put(license_obj, "name",
                               Get(license_obj, "identifier"))
         IN SetIn(d, <<"info", "license">>, Del(named, "identifier"))
    ELSE d

\* _check_json_schema_conditionals
RECURSIVE has_conditionals(_)
has_conditionals(schema) ==
    IF IsDict(schema)
    THEN \/ HasAny(schema, {"if", "then", "else"})
         \/ \E i \in 1..Len(schema.c) : has_conditionals(schema.c[i][2])
    ELSE IF IsList(schema)
    THEN \E i \in 1..Len(schema.c) : has_conditionals(schema.c[i])
    ELSE FALSE
check_json_schema_conditionals(d) ==
    /\ HasSchemas(d)
    /\ \E i \in 1..Len(Get(Get(d, "components"), "schemas").c) :
          has_conditionals(Get(Get(d, "components"), "schemas").c[i][2])

\* _convert_30_to_31 and _convert_31_to_30 on st = [doc, warnings, errors]
Rules(d) == [doc |-> d, warnings |-> <<>>, errors |-> <<>>]
Warn(st, d, message) ==
    [st EXCEPT !.doc = d, !.warnings = Append(@, <<message>>)]
convert_30_to_31(d) ==
    Rules(apply_discriminator_property_to_mapping(
              apply_nullable_to_type_array(d)))
RemoveWebhooks(st) ==
    IF Has(st.doc, "webhooks")
    THEN Warn(st, Del(st.doc, "webhooks"), "Webhooks removed")
    ELSE st
RemoveMutualTLS(st) ==
    IF mutual_tls_removed(st.doc)
    THEN Warn(st, remove_mutual_tls(st.doc),
              "mutualTLS security scheme removed")
    ELSE st
MoveLicense(st) ==
    IF license_moved(st.doc)
    THEN Warn(st, move_license_identifier(st.doc),
              "license.identifier moved to license.name")
    ELSE st
WarnsInBothModes(st, strict_mode) ==
    IF ~check_json_schema_conditionals(st.doc) THEN st
    ELSE Warn(st, st.doc, "JSON Schema conditionals found")
CheckConditionals(st, strict_mode) ==
    IF ~check_json_schema_conditionals(st.doc) THEN st
    ELSE IF strict_mode
    THEN [st EXCEPT !.errors =
            Append(@, <<"JSON Schema conditionals not supported in 3.0.x">>)]
    ELSE Warn(st, st.doc, "JSON Schema conditionals found")
convert_31_to_30(d, strict_mode) ==
    CheckConditionals(
        MoveLicense(RemoveMutualTLS(RemoveWebhooks(
            Rules(apply_discriminator_mapping_to_property(
                      apply_type_array_to_nullable(d)))))),
        strict_mode)

\* _validate_source_version: openapi.startswith("3.0.") / ("3.1.")
validate_source_version(d, source_version) ==
    LET parts == SplitDot(Join(GetOr(d, "openapi", Str("")).s))
    IN /\ Len(parts) >= 3
       /\ parts[1] = "3"
       /\ \/ source_version = "3.0.x" /\ parts[2] = "0"
          \/ source_version = "3.1.x" /\ parts[2] = "1"

\* _update_version
update_version(d, target_version) ==
    IF target_version = "3.0.x" THEN Put(d, "openapi", Str("3.0.0"))
    ELSE IF target_version = "3.1.x" THEN Put(d, "openapi", Str("3.1.0"))
    ELSE d

\* ConversionResult, without the elapsed time
ConversionResult(success, request, document, warnings, errors) ==
    [success |-> success, source_version |-> request.source_version,
     target_version |-> request.target_version,
     converted_document |-> document, warnings |-> warnings,
     errors |-> errors]

\* convert, lines 95-119: version update, target validation, result
FailsOnErrors(request, ruled, versioned, errors) ==
    IF errors # <<>>
    THEN [result |-> ConversionResult(FALSE, request, None, ruled.warnings,
                                      errors),
          work |-> versioned]
    ELSE [result |-> ConversionResult(TRUE, request, versioned, ruled.warnings,
                                      errors),
          work |-> versioned]
Validated(request, ruled, versioned, errors) ==
    IF request.strict_mode /\ errors # <<>>
    THEN [result |-> ConversionResult(FALSE, request, None, ruled.warnings,
                                      errors),
          work |-> versioned]
    ELSE [result |-> ConversionResult(TRUE, request, versioned, ruled.warnings,
                                      errors),
          work |-> versioned]
Versioned(request, external, ruled, versioned) ==
    Validated(request, ruled, versioned,
              ruled.errors \o validate_converted_document(
                                  versioned, request.target_version, external))
\* convert, lines 80-92: strict mode and the errors of the rules
Ruled(request, external, ruled) ==
    IF request.strict_mode /\ ruled.errors # <<>>
    THEN [result |-> ConversionResult(FALSE, request, None, ruled.warnings,
                                      ruled.errors),
          work |-> ruled.doc]
    ELSE Versioned(request, external, ruled,
                   update_version(ruled.doc, request.target_version))
\* convert, on the working copy the deepcopy of line 64 produced: the result
\* and the working copy as the call leaves it
convert(document, work, request, external) ==
    IF ~validate_source_version(document, request.source_version)
    THEN [result |-> ConversionResult(FALSE, request, None, <<>>,
                        << <<"Source document version mismatch">> >>),
          work |-> None]
    ELSE IF <<request.source_version, request.target_version>>
            \notin {<<"3.0.x", "3.1.x">>, <<"3.1.x", "3.0.x">>}
    THEN [result |-> ConversionResult(FALSE, request, None, <<>>,
                        << <<"Unsupported conversion direction">> >>),
          work |-> work]
    ELSE Ruled(request, external,
               IF request.source_version = "3.0.x"
               THEN convert_30_to_31(work)
               ELSE convert_31_to_30(work, request.strict_mode))

-----------------------------------------------------------------------------
(* Documents the validator runs on *)

\* the subsets of S with at most k elements
RECURSIVE SubsetsUpTo(_, _)
SubsetsUpTo(S, k) ==
    IF k = 0 THEN {{}}
    ELSE LET prev == SubsetsUpTo(S, k - 1)
         IN prev \cup {T \cup {x} : T \in prev, x \in S}

Defects ==
    {"not_dict", "no_openapi", "no_info", "no_paths", "paths_list",
     "paths_empty", "item_not_dict", "no_method", "no_responses",
     "empty_responses", "int_code", "response_not_dict", "no_description",
     "unresolved_ref", "nested_unresolved", "short_ref", "extra_path",
     "extra_method", "examples_ref", "version_2", "version_3", "version_32", "version_num",
     "version_short"}

OkOperation ==
    Dict(<< <<"responses",
              Dict(<< <<"200", Dict(<< <<"description", Str("OK")>> >>)>> >>)>>
         >>)
ValVersion(D) ==
    IF "version_num" \in D THEN Num("3.0")
    ELSE IF "version_2" \in D THEN Str("2.0.0")
    ELSE IF "version_3" \in D THEN Str("3")
    ELSE IF "version_32" \in D THEN Str("3.2.0")
    ELSE IF "version_short" \in D THEN Str("3.0")
    ELSE Str("3.0.3")
ValResponses(D) ==
    IF "empty_responses" \in D THEN Dict(<<>>)
    ELSE Dict(<< <<IF "int_code" \in D THEN "<int 200>" ELSE "200",
                   IF "response_not_dict" \in D THEN Str("OK")
                   ELSE Dict(Opt("no_description" \notin D, "description",
                                 Str("OK"))
                             \o Opt("examples_ref" \in D, "x-example",
                                    RefObj(Ref("examples", "E")))
                             \o Opt("short_ref" \in D, "x-short",
                                    RefObj(StrParts(<<"#", "components",
                                                      "schemas">>)))
                             \o << <<"schema",
                                     RefObj(Ref("schemas",
                                         IF "unresolved_ref" \in D
                                         THEN "Missing" ELSE "A"))>> >>)>> >>)
ValPathItem(D) ==
    IF "item_not_dict" \in D THEN Str("item")
    ELSE Dict(<< <<"parameters", List(<<>>)>> >>
              \o Opt("no_method" \notin D, "get",
                     Dict(<< <<"operationId", Str("getU")>> >>
                          \o Opt("no_responses" \notin D, "responses",
                                 ValResponses(D))))
              \o Opt("extra_method" \in D, "post", OkOperation))
ValPaths(D) ==
    IF "paths_list" \in D THEN List(<< Str("/u") >>)
    ELSE IF "paths_empty" \in D THEN Dict(<<>>)
    ELSE Dict(<< <<"/u", ValPathItem(D)>> >>
              \o Opt("extra_path" \in D, "/w",
                     Dict(<< <<"get", OkOperation>> >>)))
MkValDoc(D) ==
    IF "not_dict" \in D THEN List(<<>>)
    ELSE Dict(Opt("no_openapi" \notin D, "openapi", ValVersion(D))
              \o Opt("no_info" \notin D, "info",
                     Dict(<< <<"title", Str("API")>>,
                             <<"version", Str("1")>> >>))
              \o Opt("no_paths" \notin D, "paths", ValPaths(D))
              \o << <<"components", Dict(<< <<"schemas", Dict(<<
                      <<"A", SchemaDef(IF "nested_unresolved" \in D
                                       THEN "Missing" ELSE "none")>> >>)>> >>)>>
                 >>)

-----------------------------------------------------------------------------
(* The validator as a state machine *)

\* original_doc: not supplied, the source document, an empty document
Originals == {None, MkValDoc({}), Dict(<<>>)}

InitValidate ==
    /\ mode = "validate"
    /\ \E D \in SubsetsUpTo(Defects, MaxDefects) : doc = MkValDoc(D)
    /\ doc0 = doc
    /\ original_doc \in Originals
    /\ next_phase = 1
    /\ ran = <<>>
    /\ vresult = None
    /\ argPath = "/u"
    /\ argMethod = "GET"
    /\ pc = "idle"
    /\ calls = 0
    /\ extracted = None
    /\ shared = {}
    /\ resolved = EmptyResolved
    /\ visited = {}
    /\ refs_to_process = <<>>
    /\ adds = <<>>
    /\ returned = <<>>
    /\ mutated = FALSE
    /\ conv_request = None
    /\ oas_validator = "absent"
    /\ result_2 = None
    /\ NoBatch

\* validate: one phase, then "if not result.passed: return result"; phase 7
\* returns its result either way
ValidatePhase ==
    /\ mode = "validate"
    /\ next_phase \in 1..7
    /\ LET result == RunPhase(next_phase, doc, original_doc)
       IN /\ ran' = Append(ran, next_phase)
          /\ IF StopsAt(result) \/ next_phase = 7
             THEN vresult' = result /\ next_phase' = 8
             ELSE vresult' = vresult /\ next_phase' = next_phase + 1
    /\ UNCHANGED batchVars
    /\ UNCHANGED <<mode, doc, doc0, original_doc, pc, calls, extracted, shared,
                   returned, mutated>>
    /\ UNCHANGED <<resolverVars, converterVars>>

-----------------------------------------------------------------------------
(* Documents the converter runs on *)

Features ==
    {"nullable", "nullable_untyped", "nullable_false", "nested", "param",
     "path_param", "body", "type_array", "type_null_only", "type_multi",
     "type_array_plain", "discriminator", "discriminator_mapping", "webhooks",
     "mutual_tls", "license_identifier", "license_name", "conditionals",
     "nested_conditionals"}

Typed(type) == Dict(<< <<"type", Str(type)>> >>)
Nullable(type) ==
    Dict(<< <<"type", Str(type)>>, <<"nullable", Bool(TRUE)>> >>)
TypeArray(types) ==
    Dict(<< <<"type", List([i \in 1..Len(types) |-> Str(types[i])])>> >>)
Parameter(name, schema) ==
    Dict(<< <<"name", Str(name)>>, <<"in", Str("query")>>,
            <<"schema", schema>> >>)
OneOfPets ==
    List(<< RefObj(Ref("schemas", "Cat")), RefObj(Ref("schemas", "Dog")) >>)
ConvSchemas(F) ==
    Dict(<< <<"Base", Dict(<< <<"type", Str("object")>>,
                              <<"required", List(<< Str("id") >>)>>,
                              <<"properties",
                                Dict(<< <<"id", Typed("string")>> >>)>> >>)>>
         >>
         \o Opt("nullable" \in F, "A", Nullable("string"))
         \o Opt("nullable_untyped" \in F, "B",
                Dict(<< <<"nullable", Bool(TRUE)>> >>))
         \o Opt("nullable_false" \in F, "C",
                Dict(<< <<"type", Str("string")>>,
                        <<"nullable", Bool(FALSE)>> >>))
         \o Opt("nested" \in F, "N",
                Dict(<< <<"type", Str("object")>>,
                        <<"required", List(<< Str("p") >>)>>,
                        <<"properties",
                          Dict(<< <<"p", Nullable("string")>>,
                                  <<"q", Dict(<< <<"type", Str("array")>>,
                                                 <<"items", Nullable("integer")>>
                                              >>)>> >>)>>,
                        <<"allOf", List(<< Nullable("object") >>)>> >>))
         \o Opt("type_array" \in F, "T", TypeArray(<<"string", "null">>))
         \o Opt("type_null_only" \in F, "U", TypeArray(<<"null">>))
         \o Opt("type_multi" \in F, "V",
                TypeArray(<<"string", "integer", "null">>))
         \o Opt("type_array_plain" \in F, "W",
                TypeArray(<<"string", "integer">>))
         \o Opt("discriminator" \in F, "D1",
                Dict(<< <<"oneOf", OneOfPets>>,
                        <<"discriminator",
                          Dict(<< <<"propertyName", Str("kind")>> >>)>> >>))
         \o Opt("discriminator_mapping" \in F, "D2",
                Dict(<< <<"oneOf", OneOfPets>>,
                        <<"discriminator",
                          Dict(<< <<"mapping",
                                    Dict(<< <<"cat", Ref("schemas", "Cat")>>
                                         >>)>> >>)>> >>))
         \o Opt("conditionals" \in F, "X",
                Dict(<< <<"if", Typed("string")>>,
                        <<"then", Typed("string")>> >>))
         \o Opt("nested_conditionals" \in F, "Y",
                Dict(<< <<"properties",
                          Dict(<< <<"p", Dict(<< <<"if", Typed("string")>> >>)>>
                               >>)>> >>)))
ConvInfo(F) ==
    Dict(<< <<"title", Str("API")>>, <<"version", Str("1")>> >>
         \o Opt({"license_identifier", "license_name"} \cap F # {}, "license",
                Dict(Opt("license_name" \in F, "name", Str("MIT License"))
                     \o Opt("license_identifier" \in F, "identifier",
                            Str("MIT")))))
ConvOperation(F) ==
    Dict(<< <<"operationId", Str("getU")>> >>
         \o Opt("param" \in F, "parameters",
                List(<< Parameter("limit", Nullable("integer")) >>))
         \o << <<"responses", Dict(<<
                 <<"200", Dict(<<
                     <<"description", Str("OK")>>,
                     <<"content", Dict(<< <<"application/json", Dict(<<
                         <<"schema", IF "body" \in F THEN Nullable("string")
                                     ELSE RefObj(Ref("schemas", "Base"))>>
                       >>)>> >>)>> >>)>> >>)>> >>)
\* p = [version, features]
MkConvDoc(p) ==
    Dict(Opt(p.version # "absent", "openapi",
             IF p.version = "float" THEN Num("3.0") ELSE Str(p.version))
         \o << <<"info", ConvInfo(p.features)>> >>
         \o Opt("mutual_tls" \in p.features, "security",
                List(<< Dict(<< <<"M", List(<<>>)>> >>) >>))
         \o << <<"paths", Dict(<<
                 <<"/u", Dict(Opt("path_param" \in p.features, "parameters",
                                  List(<< Parameter("tenant",
                                                    Nullable("string")) >>))
                              \o << <<"get", ConvOperation(p.features)>> >>)>>
               >>)>> >>
         \o Opt("webhooks" \in p.features, "webhooks",
                Dict(<< <<"event", Dict(<< <<"post", OkOperation>> >>)>> >>))
         \o << <<"components", Dict(
                 << <<"schemas", ConvSchemas(p.features)>> >>
                 \o Opt("mutual_tls" \in p.features, "securitySchemes",
                        Dict(<< <<"M", Typed("mutualTLS")>>,
                                <<"K", Typed("http")>> >>)))>> >>)

ConvVersions == {"3.0.3", "3.1.0", "3.0", "2.0.0", "float", "absent"}
Request(source, target, strict) ==
    [source_version |-> source, target_version |-> target,
     strict_mode |-> strict]
\* documents with up to MaxFeatures features, converted in their own direction
FeatureRuns ==
    {[p |-> [version |-> v, features |-> F],
      request |-> Request(IF v = "3.0.3" THEN "3.0.x" ELSE "3.1.x",
                          IF v = "3.0.3" THEN "3.1.x" ELSE "3.0.x", strict),
      external |-> "absent"] :
        v \in {"3.0.3", "3.1.0"}, F \in SubsetsUpTo(Features, MaxFeatures),
        strict \in BOOLEAN}
\* every version string against every request and validator verdict
RequestRuns ==
    {[p |-> [version |-> v, features |-> {"nullable"}],
      request |-> Request(source, target, strict), external |-> e] :
        v \in ConvVersions, source \in {"3.0.x", "3.1.x"},
        target \in {"3.0.x", "3.1.x"}, strict \in BOOLEAN,
        e \in {"absent", "valid", "invalid"}}

-----------------------------------------------------------------------------
(* The converter as a state machine *)

InitConvert ==
    /\ mode = "convert"
    /\ \E r \in FeatureRuns \cup RequestRuns :
         /\ doc = MkConvDoc(r.p)
         /\ conv_request = r.request
         /\ oas_validator = r.external
    /\ result_2 = None
    /\ NoBatch
    /\ doc0 = doc
    /\ original_doc = None
    /\ next_phase = 0
    /\ ran = <<>>
    /\ vresult = None
    /\ argPath = "/u"
    /\ argMethod = "GET"
    /\ pc = "idle"
    /\ calls = 0
    /\ extracted = None
    /\ shared = {}
    /\ resolved = EmptyResolved
    /\ visited = {}
    /\ refs_to_process = <<>>
    /\ adds = <<>>
    /\ returned = <<>>
    /\ mutated = FALSE

\* what a convert call leaves behind: the result, the document the caller
\* now holds, and the input when the rules ran on it in place
Converted(out, inplace) ==
    /\ returned' = Append(returned, out.result)
    /\ extracted' = out.result.converted_document
    /\ shared' = IF inplace /\ out.work # None THEN {<<>>} ELSE {}
    /\ doc' = IF inplace /\ out.work # None THEN out.work ELSE doc

\* convert: a non-string openapi raises inside the try block (line 121);
\* otherwise the rules run on the copy made at line 64
ConvertCall ==
    /\ mode = "convert"
    /\ calls < MaxCalls
    /\ IF ~IsStr(GetOr(doc, "openapi", Str("")))
       THEN /\ returned' = Append(returned,
                  ConversionResult(FALSE, conv_request, None, <<>>,
                                   << <<"Conversion failed">> >>))
            /\ extracted' = None
            /\ UNCHANGED <<doc, shared>>
       ELSE Converted(convert(doc, deepcopy(doc).val, conv_request,
                              oas_validator),
                      deepcopy(doc).alias)
    /\ calls' = calls + 1
    /\ UNCHANGED batchVars
    /\ UNCHANGED <<mode, doc0, pc, mutated>>
    /\ UNCHANGED <<resolverVars, validatorVars, converterVars>>

\* the caller writes into the info object of the document convert returned
MutateConverted ==
    /\ mode = "convert"
    /\ ~mutated
    /\ extracted # None
    /\ LET v == Touch(Get(extracted, "info"))
       IN /\ extracted' = Put(extracted, "info", v)
          /\ doc' = IF <<>> \in shared THEN Put(doc, "info", v) ELSE doc
    /\ mutated' = TRUE
    /\ UNCHANGED batchVars
    /\ UNCHANGED <<mode, doc0, pc, calls, shared, returned>>
    /\ UNCHANGED <<resolverVars, validatorVars, converterVars>>

\* the caller converts the document it was handed back in the opposite
\* direction, with a converter of its own
ConvertBack ==
    /\ mode = "convert"
    /\ result_2 = None
    /\ returned # <<>>
    /\ returned[Len(returned)].success
    /\ extracted # None
    /\ result_2' = convert(extracted, deepcopy(extracted).val,
                           Request(conv_request.target_version,
                                   conv_request.source_version,
                                   conv_request.strict_mode),
                           oas_validator).result
    /\ UNCHANGED batchVars
    /\ UNCHANGED <<mode, doc, doc0, pc, calls, extracted, shared, returned,
                   mutated, conv_request, oas_validator>>
    /\ UNCHANGED <<resolverVars, validatorVars>>

-----------------------------------------------------------------------------
(* output_manager.py *)

\* a path is a sequence of tokens: the characters "/", "{", "}", "." and "-",
\* and runs of other characters
upper(m) ==
    CASE m = "get" -> "GET"
      [] m = "Get" -> "GET"
      [] m = "delete" -> "DELETE"
      [] m = "post" -> "POST"
      [] OTHER -> m
lower(token) ==
    CASE token = "Users" -> "users"
      [] token = "ID" -> "id"
      [] OTHER -> token

\* path.startswith("/"): path[1:]
StripSlash(p) == IF p # <<>> /\ Head(p) = "/" THEN Tail(p) ELSE p
\* re.sub(r"\{([^}]+)\}", r"-\1", path)
FirstClose(p) ==
    IF \E i \in 1..Len(p) : p[i] = "}"
    THEN CHOOSE i \in 1..Len(p) :
            p[i] = "}" /\ \A j \in 1..(i - 1) : p[j] # "}"
    ELSE 0
RECURSIVE Braces(_)
Braces(p) ==
    IF p = <<>> THEN <<>>
    ELSE IF Head(p) = "{" /\ FirstClose(p) >= 3
    THEN <<"-">> \o SubSeq(p, 2, FirstClose(p) - 1)
                 \o Braces(SubSeq(p, FirstClose(p) + 1, Len(p)))
    ELSE <<Head(p)>> \o Braces(Tail(p))
\* path.replace("/", "-"), path.replace(".", "-")
Hyphenate(p) == [i \in 1..Len(p) |-> IF p[i] \in {"/", "."} THEN "-" ELSE p[i]]
\* re.sub(r"-+", "-", path)
RECURSIVE Collapse(_)
Collapse(p) ==
    IF Len(p) < 2 THEN p
    ELSE IF p[1] = "-" /\ p[2] = "-" THEN Collapse(Tail(p))
    ELSE <<p[1]>> \o Collapse(Tail(p))
\* path.strip("-")
RECURSIVE StripHyphens(_)
StripHyphens(p) ==
    IF p = <<>> THEN p
    ELSE IF Head(p) = "-" THEN StripHyphens(Tail(p))
    ELSE IF p[Len(p)] = "-" THEN StripHyphens(SubSeq(p, 1, Len(p) - 1))
    ELSE p
sanitize_path(path) ==
    LET stripped == StripHyphens(Collapse(Hyphenate(Braces(StripSlash(path)))))
    IN IF stripped = <<>> THEN <<"root">>
       ELSE [i \in 1..Len(stripped) |-> lower(stripped[i])]

\* write_output_file: the file of that name is created or replaced
write_output_file(directory, output_path, content) ==
    {f \in directory : f[1] # output_path} \cup {<<output_path, content>>}

-----------------------------------------------------------------------------
(* csv_manager.py *)

\* append_entry, line 124: the key of an entry
Key(entry) == <<entry.path, upper(entry.method)>>
\* append_entry, line 125: the entry is skipped
Skipped(entry, skip_duplicates, known) ==
    skip_duplicates /\ Key(entry) \in known
\* _load_existing_entries: the keys of the rows of the file
LoadedKeys(rows) ==
    {<<rows[i][1], upper(rows[i][2])>> : i \in 1..Len(rows)}

-----------------------------------------------------------------------------
(* The batch processor as a state machine *)

\* what _extract_endpoint does for an endpoint: it writes the file and
\* returns its path ("warned": after a conversion that gave warnings), or
\* slicer.extract raises ("raised"), validation fails ("failed") or the
\* requested conversion fails ("unconvertible"), and it records the failure
\* and returns None
Outcomes == {"written", "warned", "failed", "unconvertible", "raised"}
BatchPaths ==
    << <<"/", "users", "/", "{", "id", "}">>,
       <<"/", "orders">>,
       <<"/", "users", "/", "id">>,
       <<"/", "Users", "/", "{", "id", "}", "/">>,
       <<"/", "orders", ".", "json">> >>
Endpoint(i, outcome) ==
    [path |-> BatchPaths[i], method |-> "get", outcome |-> outcome]
\* a conversion is requested for the first two endpoints of a list
OutcomesAt(i) ==
    IF i <= 2 THEN Outcomes ELSE Outcomes \ {"warned", "unconvertible"}
EndpointLists ==
    UNION {{[i \in 1..n |-> Endpoint(i, o[i])] :
              o \in {f \in [1..n -> Outcomes] :
                        \A i \in 1..n : f[i] \in OutcomesAt(i)}} :
             n \in 0..MaxEndpoints}
Concurrencies == {1, 2, 4}
BatchRequests ==
    {[concurrency |-> c, dry_run |-> FALSE, generate_csv |-> TRUE,
      output_format |-> "yaml"] : c \in Concurrencies}
    \cup {[concurrency |-> 4, dry_run |-> TRUE, generate_csv |-> TRUE,
           output_format |-> "yaml"],
          [concurrency |-> 2, dry_run |-> FALSE, generate_csv |-> FALSE,
           output_format |-> "json"]}

\* _generate_filename
generate_filename(path, method, output_format) ==
    sanitize_path(path)
    \o <<"_", upper(method), ".",
         IF output_format = "json" THEN "json" ELSE "yaml">>

\* _extract_endpoint going on to write the file after recording a failure
WritesAnyway(e, output_format) ==
    [output_path |-> <<"out">> \o generate_filename(e.path, e.method,
                                                  output_format),
     failures |-> IF e.outcome = "written" THEN <<>>
                  ELSE << <<e.path, e.method, e.outcome>> >>]
\* _extract_endpoint: the returned path (<<>> for None) and what it appends
\* to self.failed_endpoints
extract_endpoint(e, output_format) ==
    CASE e.outcome = "written" ->
            [output_path |-> <<"out">> \o generate_filename(e.path, e.method,
                                                          output_format),
             failures |-> <<>>]
      [] e.outcome = "warned" ->
            [output_path |-> <<"out">> \o generate_filename(e.path, e.method,
                                                          output_format),
             failures |-> << <<e.path, e.method, "Conversion warnings">> >>]
      [] e.outcome = "failed" ->
            [output_path |-> <<>>,
             failures |-> << <<e.path, e.method, "Validation failed">> >>]
      [] e.outcome = "unconvertible" ->
            [output_path |-> <<>>,
             failures |-> << <<e.path, e.method, "Conversion failed">> >>]
      [] e.outcome = "raised" ->
            [output_path |-> <<>>,
             failures |-> << <<e.path, e.method, "str(e)">> >>]

\* process, lines 139-143: "if output_path:" and the counter it moves
NotCounted(output_path) == 0
failed_increment(output_path) == IF output_path # <<>> THEN 0 ELSE 1
extracted_increment(output_path) == IF output_path # <<>> THEN 1 ELSE 0

BatchExtractionResult(total, successes, failed, failures, written) ==
    [total_endpoints |-> total, extracted_count |-> successes,
     failed_count |-> failed,
     failed_endpoints |-> failures, output_files |-> written]

RunningFutures == {i \in 1..Len(futures) : futures[i] = "running"}
QueuedFutures == {i \in 1..Len(futures) : futures[i] = "queued"}
\* process, line 105: self.csv_manager is created
CsvEnabled == batch_request.generate_csv /\ ~batch_request.dry_run

InitBatch ==
    /\ mode = "batch"
    /\ doc = None
    /\ doc0 = None
    /\ original_doc = None
    /\ next_phase = 0
    /\ ran = <<>>
    /\ vresult = None
    /\ argPath = "/u"
    /\ argMethod = "GET"
    /\ pc = "idle"
    /\ calls = 0
    /\ extracted = None
    /\ shared = {}
    /\ resolved = EmptyResolved
    /\ visited = {}
    /\ refs_to_process = <<>>
    /\ adds = <<>>
    /\ returned = <<>>
    /\ mutated = FALSE
    /\ conv_request = None
    /\ oas_validator = "absent"
    /\ result_2 = None
    /\ batch_pc = "start"
    /\ endpoints \in EndpointLists
    /\ batch_request \in BatchRequests
    /\ futures = <<>>
    /\ processed = [i \in 1..Len(endpoints) |-> 0]
    /\ extracted_count = 0
    /\ failed_count = 0
    /\ failed_endpoints = <<>>
    /\ output_files = <<>>
    /\ batch_result = None
    /\ files = {}
    /\ NoCsv

\* process, lines 85-132: no endpoint, the index file, dry run, or one
\* future per endpoint
BatchProcess ==
    /\ mode = "batch"
    /\ batch_pc = "start"
    /\ IF endpoints = <<>>
       THEN /\ batch_result' = BatchExtractionResult(0, 0, 0, <<>>, <<>>)
            /\ batch_pc' = "returned"
            /\ UNCHANGED <<futures, extracted_count, csv_exists,
                           csv_initialized>>
       ELSE IF batch_request.dry_run
       THEN /\ extracted_count' = Len(endpoints)
            /\ batch_result' = BatchExtractionResult(
                   Len(endpoints), Len(endpoints), 0, <<>>, <<>>)
            /\ batch_pc' = "returned"
            /\ UNCHANGED <<futures, csv_exists, csv_initialized>>
       ELSE /\ csv_exists' = (csv_exists \/ CsvEnabled)
            /\ csv_initialized' = CsvEnabled
            /\ futures' = [i \in 1..Len(endpoints) |-> "queued"]
            /\ batch_pc' = "collecting"
            /\ UNCHANGED <<extracted_count, batch_result>>
    /\ UNCHANGED <<endpoints, batch_request, processed, failed_count,
                   failed_endpoints, output_files, files, csv_rows,
                   known_entries, csv_lock, csv_threads>>
    /\ UNCHANGED <<mode, doc, doc0, pc, calls, extracted, shared, returned,
                   mutated>>
    /\ UNCHANGED <<resolverVars, validatorVars, converterVars>>

\* a free worker of the pool takes the oldest queued task
WorkerStart ==
    /\ mode = "batch"
    /\ batch_pc = "collecting"
    /\ QueuedFutures # {}
    /\ Cardinality(RunningFutures) < batch_request.concurrency
    /\ LET i == CHOOSE j \in QueuedFutures : \A k \in QueuedFutures : j <= k
       IN /\ futures' = [futures EXCEPT ![i] = "running"]
          /\ processed' = [processed EXCEPT ![i] = @ + 1]
    /\ UNCHANGED <<batch_pc, endpoints, batch_request, extracted_count,
                   failed_count, failed_endpoints, output_files, batch_result,
                   files>>
    /\ UNCHANGED csvVars
    /\ UNCHANGED <<mode, doc, doc0, pc, calls, extracted, shared, returned,
                   mutated>>
    /\ UNCHANGED <<resolverVars, validatorVars, converterVars>>

\* _extract_endpoint, lines 183-246, in the worker's thread: extraction,
\* validation, conversion and generation, then the file is written; a
\* failure on the way is recorded and ends the task
WorkerWrite ==
    /\ mode = "batch"
    /\ batch_pc = "collecting"
    /\ \E i \in RunningFutures :
         LET r == extract_endpoint(endpoints[i], batch_request.output_format)
         IN /\ failed_endpoints' = failed_endpoints \o r.failures
            /\ IF r.output_path # <<>>
               THEN /\ files' = write_output_file(files, r.output_path, i)
                    /\ futures' = [futures EXCEPT ![i] = "written"]
               ELSE /\ futures' = [futures EXCEPT ![i] = "done"]
                    /\ UNCHANGED files
    /\ UNCHANGED <<batch_pc, endpoints, batch_request, processed,
                   extracted_count, failed_count, output_files, batch_result>>
    /\ UNCHANGED csvVars
    /\ UNCHANGED <<mode, doc, doc0, pc, calls, extracted, shared, returned,
                   mutated>>
    /\ UNCHANGED <<resolverVars, validatorVars, converterVars>>

\* _extract_endpoint, lines 248-252, and _add_csv_entry: the file is
\* written; the row is appended under the manager's lock unless its key is
\* known, and the path is returned
WorkerFinish ==
    /\ mode = "batch"
    /\ batch_pc = "collecting"
    /\ \E i \in 1..Len(futures) :
         /\ futures[i] = "written"
         /\ futures' = [futures EXCEPT ![i] = "done"]
         /\ IF CsvEnabled /\ ~Skipped(endpoints[i], TRUE, known_entries)
            THEN /\ csv_rows' = Append(csv_rows, <<endpoints[i].path,
                                                   endpoints[i].method>>)
                 /\ known_entries' = known_entries \cup {Key(endpoints[i])}
            ELSE UNCHANGED <<csv_rows, known_entries>>
    /\ UNCHANGED <<batch_pc, endpoints, batch_request, processed,
                   extracted_count, failed_count, failed_endpoints,
                   output_files, batch_result, files>>
    /\ UNCHANGED <<csv_exists, csv_initialized, csv_lock, csv_threads>>
    /\ UNCHANGED <<mode, doc, doc0, pc, calls, extracted, shared, returned,
                   mutated>>
    /\ UNCHANGED <<resolverVars, validatorVars, converterVars>>

\* process, lines 135-146: as_completed hands over a finished future;
\* future.result() returns what _extract_endpoint returned (the handler at
\* line 254 lets no Exception out of it, so the except branch at 144 has
\* nothing to catch)
Collect ==
    /\ mode = "batch"
    /\ batch_pc = "collecting"
    /\ \E i \in 1..Len(futures) :
         LET r == extract_endpoint(endpoints[i], batch_request.output_format)
         IN /\ futures[i] = "done"
            /\ futures' = [futures EXCEPT ![i] = "collected"]
            /\ output_files' =
                  IF r.output_path # <<>>
                  THEN Append(output_files, r.output_path)
                  ELSE output_files
            /\ extracted_count' =
                  extracted_count + extracted_increment(r.output_path)
            /\ failed_count' = failed_count + failed_increment(r.output_path)
    /\ UNCHANGED <<batch_pc, endpoints, batch_request, processed,
                   failed_endpoints, batch_result, files>>
    /\ UNCHANGED csvVars
    /\ UNCHANGED <<mode, doc, doc0, pc, calls, extracted, shared, returned,
                   mutated>>
    /\ UNCHANGED <<resolverVars, validatorVars, converterVars>>

\* process, lines 156-171: every future collected, the result
BatchReturn ==
    /\ mode = "batch"
    /\ batch_pc = "collecting"
    /\ \A i \in 1..Len(futures) : futures[i] = "collected"
    /\ batch_result' = BatchExtractionResult(
           Len(endpoints), extracted_count, failed_count, failed_endpoints,
           output_files)
    /\ batch_pc' = "returned"
    /\ UNCHANGED <<endpoints, batch_request, futures, processed,
                   extracted_count, failed_count, failed_endpoints,
                   output_files, files>>
    /\ UNCHANGED csvVars
    /\ UNCHANGED <<mode, doc, doc0, pc, calls, extracted, shared, returned,
                   mutated>>
    /\ UNCHANGED <<resolverVars, validatorVars, converterVars>>

-----------------------------------------------------------------------------
(* The CSV index manager as a state machine *)

IndexEntry(i, method) == [path |-> BatchPaths[i], method |-> method]
IndexEntries == {IndexEntry(1, "get"), IndexEntry(1, "GET"), IndexEntry(2, "get")}
\* the calls a thread makes: append_entry(entry), append_batch(entries)
IndexCalls ==
    {[op |-> "entry", entries |-> <<e>>] : e \in IndexEntries}
    \cup {[op |-> "batch", entries |-> es] :
            es \in {<<>>,
                    <<IndexEntry(1, "GET"), IndexEntry(1, "get")>>,
                    <<IndexEntry(2, "get"), IndexEntry(1, "get")>>}}
\* an index file left by an earlier run: none, empty, or without duplicates
IndexFiles ==
    {[exists |-> FALSE, rows |-> <<>>],
     [exists |-> TRUE, rows |-> <<>>],
     [exists |-> TRUE, rows |-> << <<BatchPaths[1], "get">> >>],
     [exists |-> TRUE, rows |-> << <<BatchPaths[2], "GET">>,
                                  <<BatchPaths[1], "GET">> >>]}
Threads == 1..MaxThreads
IdleThread ==
    [pc |-> "idle", op |-> "none", entries |-> <<>>, k |-> 1,
     returned |-> FALSE, added_count |-> 0]
RowFor(entry) == <<entry.path, entry.method>>

\* "with self.lock:" can be entered
NoLock(lock) == TRUE
LockFree(lock) == lock = 0

\* initialize, lines 57-78: what the file holds afterwards, and the keys known
InitializedRows(append_mode, exists, rows) ==
    IF append_mode /\ exists THEN rows ELSE <<>>
InitializedKeys(append_mode, exists, rows) ==
    IF append_mode /\ exists THEN LoadedKeys(rows) ELSE {}

InitCsv ==
    /\ mode = "csv"
    /\ doc = None
    /\ doc0 = None
    /\ original_doc = None
    /\ next_phase = 0
    /\ ran = <<>>
    /\ vresult = None
    /\ argPath = "/u"
    /\ argMethod = "GET"
    /\ pc = "idle"
    /\ calls = 0
    /\ extracted = None
    /\ shared = {}
    /\ resolved = EmptyResolved
    /\ visited = {}
    /\ refs_to_process = <<>>
    /\ adds = <<>>
    /\ returned = <<>>
    /\ mutated = FALSE
    /\ conv_request = None
    /\ oas_validator = "absent"
    /\ result_2 = None
    /\ batch_pc = "idle"
    /\ endpoints = <<>>
    /\ batch_request = [concurrency |-> 4, dry_run |-> FALSE,
                        generate_csv |-> TRUE, output_format |-> "yaml"]
    /\ futures = <<>>
    /\ processed = <<>>
    /\ extracted_count = 0
    /\ failed_count = 0
    /\ failed_endpoints = <<>>
    /\ output_files = <<>>
    /\ batch_result = None
    /\ files = {}
    /\ \E f \in IndexFiles : csv_exists = f.exists /\ csv_rows = f.rows
    /\ known_entries = {}
    /\ csv_initialized = FALSE
    /\ csv_lock = 0
    /\ csv_threads = [t \in Threads |-> IdleThread]

\* initialize(append_mode), called before any thread appends (process,
\* line 109)
CsvInitialize ==
    /\ mode = "csv"
    /\ ~csv_initialized
    /\ \A t \in Threads : csv_threads[t].pc = "idle"
    /\ \E append_mode \in BOOLEAN :
         /\ csv_rows' = InitializedRows(append_mode, csv_exists, csv_rows)
         /\ known_entries' =
               InitializedKeys(append_mode, csv_exists, csv_rows)
    /\ csv_exists' = TRUE
    /\ csv_initialized' = TRUE
    /\ UNCHANGED <<csv_lock, csv_threads>>
    /\ UNCHANGED <<batch_pc, endpoints, batch_request, futures, processed,
                   extracted_count, failed_count, failed_endpoints,
                   output_files, batch_result, files>>
    /\ UNCHANGED <<mode, doc, doc0, pc, calls, extracted, shared, returned,
                   mutated>>
    /\ UNCHANGED <<resolverVars, validatorVars, converterVars>>

\* append_entry, line 119, and append_batch, line 152: a thread enters the
\* call and reads self._initialized, outside the lock
CsvCall ==
    /\ mode = "csv"
    /\ calls < MaxAppends
    /\ \E t \in Threads, c \in IndexCalls :
         /\ csv_threads[t].pc = "idle"
         /\ csv_threads' = [csv_threads EXCEPT ![t] =
               [pc |-> IF csv_initialized THEN "lock" ELSE "init",
                op |-> c.op, entries |-> c.entries, k |-> 1,
                returned |-> FALSE, added_count |-> 0]]
    /\ calls' = calls + 1
    /\ UNCHANGED <<csv_exists, csv_rows, known_entries, csv_initialized,
                   csv_lock>>
    /\ UNCHANGED <<batch_pc, endpoints, batch_request, futures, processed,
                   extracted_count, failed_count, failed_endpoints,
                   output_files, batch_result, files>>
    /\ UNCHANGED <<mode, doc, doc0, pc, extracted, shared, returned, mutated>>
    /\ UNCHANGED <<resolverVars, validatorVars, converterVars>>

\* append_entry, line 120: initialize() under the lock; it returns at once
\* when another thread has initialized in the meantime
CsvLazyInit ==
    /\ mode = "csv"
    /\ LockFree(csv_lock)
    /\ \E t \in Threads :
         /\ csv_threads[t].pc = "init"
         /\ csv_threads' = [csv_threads EXCEPT ![t].pc = "lock"]
    /\ IF csv_initialized
       THEN UNCHANGED <<csv_exists, csv_rows, known_entries, csv_initialized>>
       ELSE /\ csv_rows' = InitializedRows(FALSE, csv_exists, csv_rows)
            /\ known_entries' = InitializedKeys(FALSE, csv_exists, csv_rows)
            /\ csv_exists' = TRUE
            /\ csv_initialized' = TRUE
    /\ UNCHANGED csv_lock
    /\ UNCHANGED <<batch_pc, endpoints, batch_request, futures, processed,
                   extracted_count, failed_count, failed_endpoints,
                   output_files, batch_result, files>>
    /\ UNCHANGED <<mode, doc, doc0, pc, calls, extracted, shared, returned,
                   mutated>>
    /\ UNCHANGED <<resolverVars, validatorVars, converterVars>>

\* append_entry, lines 122-126, and append_batch, lines 156-157: the lock is
\* taken; append_entry checks its key and returns False when it is known
CsvAcquire ==
    /\ mode = "csv"
    /\ LockFree(csv_lock)
    /\ \E t \in Threads :
         /\ csv_threads[t].pc = "lock"
         /\ IF \/ csv_threads[t].entries = <<>>
               \/ /\ csv_threads[t].op = "entry"
                  /\ Skipped(csv_threads[t].entries[1], TRUE, known_entries)
            THEN /\ csv_threads' = [csv_threads EXCEPT ![t].pc = "idle"]
                 /\ UNCHANGED csv_lock
            ELSE /\ csv_threads' = [csv_threads EXCEPT ![t].pc = "write"]
                 /\ csv_lock' = t
    /\ UNCHANGED <<csv_exists, csv_rows, known_entries, csv_initialized>>
    /\ UNCHANGED <<batch_pc, endpoints, batch_request, futures, processed,
                   extracted_count, failed_count, failed_endpoints,
                   output_files, batch_result, files>>
    /\ UNCHANGED <<mode, doc, doc0, pc, calls, extracted, shared, returned,
                   mutated>>
    /\ UNCHANGED <<resolverVars, validatorVars, converterVars>>

\* append_entry, lines 128-135: the row is written and its key tracked;
\* append_batch, lines 159-167: one entry of the loop, skipped or written;
\* after the last one the lock is released and the call returns
CsvWrite ==
    /\ mode = "csv"
    /\ \E t \in Threads :
         LET th == csv_threads[t]
             entry == th.entries[th.k]
             skip == th.op = "batch" /\ Skipped(entry, TRUE, known_entries)
             last == th.k = Len(th.entries)
         IN /\ th.pc = "write"
            /\ csv_rows' = IF skip THEN csv_rows
                           ELSE Append(csv_rows, RowFor(entry))
            /\ known_entries' = IF skip THEN known_entries
                                ELSE known_entries \cup {Key(entry)}
            /\ csv_threads' = [csv_threads EXCEPT ![t] =
                  [th EXCEPT !.pc = IF last THEN "idle" ELSE "write",
                             !.k = IF last THEN th.k ELSE th.k + 1,
                             !.returned = (th.op = "entry"),
                             !.added_count = IF skip THEN @ ELSE @ + 1]]
            /\ csv_lock' = IF last THEN 0 ELSE csv_lock
    /\ UNCHANGED <<csv_exists, csv_initialized>>
    /\ UNCHANGED <<batch_pc, endpoints, batch_request, futures, processed,
                   extracted_count, failed_count, failed_endpoints,
                   output_files, batch_result, files>>
    /\ UNCHANGED <<mode, doc, doc0, pc, calls, extracted, shared, returned,
                   mutated>>
    /\ UNCHANGED <<resolverVars, validatorVars, converterVars>>

\* a later run: a new CSVIndexManager for the same file
CsvReopen ==
    /\ mode = "csv"
    /\ csv_initialized
    /\ \A t \in Threads : csv_threads[t].pc = "idle"
    /\ known_entries' = {}
    /\ csv_initialized' = FALSE
    /\ csv_lock' = 0
    /\ UNCHANGED <<csv_exists, csv_rows, csv_threads>>
    /\ UNCHANGED <<batch_pc, endpoints, batch_request, futures, processed,
                   extracted_count, failed_count, failed_endpoints,
                   output_files, batch_result, files>>
    /\ UNCHANGED <<mode, doc, doc0, pc, calls, extracted, shared, returned,
                   mutated>>
    /\ UNCHANGED <<resolverVars, validatorVars, converterVars>>

-----------------------------------------------------------------------------
(* The specification *)

Init == InitSlice \/ InitValidate \/ InitConvert \/ InitBatch \/ InitCsv

Next ==
    \/ ExtractCall
    \/ ResolveStart
    \/ BfsStep
    \/ ExtractReturn
    \/ MutateOutput
    \/ ValidatePhase
    \/ ConvertCall
    \/ MutateConverted
    \/ ConvertBack
    \/ BatchProcess
    \/ WorkerStart
    \/ WorkerWrite
    \/ WorkerFinish
    \/ Collect
    \/ BatchReturn
    \/ CsvInitialize
    \/ CsvCall
    \/ CsvLazyInit
    \/ CsvAcquire
    \/ CsvWrite
    \/ CsvReopen

Spec == Init /\ [][Next]_vars

-----------------------------------------------------------------------------
(* Vocabulary of the properties: references and reachability, stated on the *)
(* document alone                                                           *)

\* every $ref value anywhere in a tree
RECURSIVE RefsIn(_)
RefsIn(j) ==
    IF IsDict(j)
    THEN (IF Has(j, "$ref") THEN {Get(j, "$ref")} ELSE {})
         \cup UNION {RefsIn(j.c[i][2]) : i \in 1..Len(j.c)}
    ELSE IF IsList(j) THEN UNION {RefsIn(j.c[i]) : i \in 1..Len(j.c)}
    ELSE {}

\* "#/components/<category>/<name>" with any category / one of the eight
IsLocalRef(r) == Len(r.s) >= 4 /\ r.s[1] = "#" /\ r.s[2] = "components"
IsComponentRef(r) == IsLocalRef(r) /\ r.s[3] \in ComponentType
SlotOf(r) == <<r.s[3], Join(SubSeq(r.s, 4, Len(r.s)))>>
SlotsOf(refs) == {SlotOf(r) : r \in {x \in refs : IsComponentRef(x)}}

Exists(slot) ==
    /\ Has(doc, "components")
    /\ Has(Get(doc, "components"), slot[1])
    /\ Has(Get(Get(doc, "components"), slot[1]), slot[2])
DefOf(slot) == Get(Get(Get(doc, "components"), slot[1]), slot[2])
Succ(slot) == IF Exists(slot) THEN SlotsOf(RefsIn(DefOf(slot))) ELSE {}

RECURSIVE Closure(_)
Closure(S) ==
    LET N == S \cup UNION {Succ(s) : s \in S}
    IN IF N = S THEN S ELSE Closure(N)

Found == Has(GetOr(doc, "paths", Dict(<<>>)), argPath)
         /\ Has(Get(Get(doc, "paths"), argPath), Lower(argMethod))
ReqPathItem == Get(Get(doc, "paths"), argPath)
ReqOperation == Get(ReqPathItem, Lower(argMethod))
ReqParams == GetOr(ReqPathItem, "parameters", List(<<>>))

\* slots named by $ref in the operation and the path-level parameters
RefRoots == SlotsOf(RefsIn(ReqOperation) \cup RefsIn(ReqParams))
\* scheme names of the security requirements that apply to the operation
NamesIn(security) ==
    UNION {Keys(security.c[i]) : i \in 1..Len(security.c)}
ApplicableSchemes ==
    IF Has(ReqOperation, "security") THEN NamesIn(Get(ReqOperation, "security"))
    ELSE IF Has(doc, "security") THEN NamesIn(Get(doc, "security"))
    ELSE {}
SecurityRoots == {<<"securitySchemes", n>> : n \in ApplicableSchemes}

Reachable == {s \in Closure(RefRoots \cup SecurityRoots) : Exists(s)}
OnCycle(slot) == slot \in Closure(Succ(slot))

ResolvedSlots ==
    UNION {{<<ct, n>> : n \in Keys(resolved[ct])} : ct \in ComponentType}
ComponentSlots(d) ==
    UNION {{<<ct, n>> : n \in Keys(Section(d, ct))} : ct \in Keys(Components(d))}

\* an extract call has returned a document and no other is under way
Done == /\ mode = "slice" /\ pc = "idle" /\ calls > 0
        /\ returned[Len(returned)].kind = "ok"
LastDoc == returned[Len(returned)].doc

\* the same with any category name, as phase 4 reads references
SlotsOfAny(refs) == {SlotOf(r) : r \in {x \in refs : IsLocalRef(x)}}
SuccAny(slot) == IF Exists(slot) THEN SlotsOfAny(RefsIn(DefOf(slot))) ELSE {}
RECURSIVE ClosureAny(_)
ClosureAny(S) ==
    LET N == S \cup UNION {SuccAny(s) : s \in S}
    IN IF N = S THEN S ELSE ClosureAny(N)
\* every reference reachable from the requested operation has its target
AllReachableRefsExist ==
    \A s \in ClosureAny(SlotsOfAny(RefsIn(ReqOperation) \cup RefsIn(ReqParams))
                        \cup SecurityRoots) :
        s \in SecurityRoots \/ Exists(s)

-----------------------------------------------------------------------------
(* Properties *)

\* the work a running traversal has left, ordered lexicographically: the
\* components of the document not yet visited, then the queued references
Unvisited == Cardinality(ComponentSlots(doc) \ visited)
Queued == Len(refs_to_process)

\* C1: every call of resolve_all_refs terminates, also for self-referencing
\* and cyclic components: each iteration of the BFS loop visits a component
\* not visited before or else shortens the queue (a well-founded order, so
\* the loop ends), and once the queue is empty the call can return
C1_Terminates ==
    [][/\ (pc = "bfs" /\ pc' = "bfs") =>
             \/ Unvisited' < Unvisited
             \/ Unvisited' = Unvisited /\ Queued' < Queued
       /\ (pc' = "bfs" /\ refs_to_process' = <<>>) =>
             (ENABLED ExtractReturn)']_vars
\* a call returned for a document whose resolved components form a cycle of
\* length two or more
C1_Witness ==
    /\ Done
    /\ \E s \in ResolvedSlots : OnCycle(s) /\ s \notin Succ(s)

\* C2: no slot is ever assigned twice in one traversal, and when the call has
\* returned every schema on a cycle reachable from the operation is in the
\* set, assigned exactly once
C2_CycleOnce ==
    /\ \A k \in DOMAIN adds : adds[k] <= 1
    /\ Done =>
         \A s \in Reachable :
            (s[1] = "schemas" /\ OnCycle(s)) =>
                s \in ResolvedSlots /\ AddsOf(adds, s) = 1
\* a call returned a set holding a schema that references itself
C2_Witness ==
    /\ Done
    /\ \E s \in ResolvedSlots : s[1] = "schemas" /\ s \in Succ(s)

\* C3: the returned set is closed under references: the existing target of
\* every component $ref in the operation, the path-level parameters and the
\* definitions in the set is in the set
C3_Complete ==
    Done =>
      \A t \in RefRoots \cup
               UNION {SlotsOf(RefsIn(Get(resolved[s[1]], s[2]))) :
                        s \in ResolvedSlots} :
         Exists(t) => t \in ResolvedSlots

\* C4: the returned set and the components of the extracted document hold
\* only components reachable from the operation, its path-level parameters
\* or its applicable security requirements, each with the source definition
C4_Minimal ==
    Done =>
      /\ ResolvedSlots \subseteq Reachable
      /\ ComponentSlots(LastDoc) = ResolvedSlots
      /\ \A s \in ResolvedSlots :
            Get(Section(LastDoc, s[1]), s[2]) = DefOf(s)
\* GET /u was extracted with components, and the schema only DELETE /u uses
\* was left out
C4_Witness ==
    /\ Done
    /\ argPath = "/u" /\ Lower(argMethod) = "get"
    /\ ResolvedSlots # {}
    /\ <<"schemas", "OnlyDelete">> \in SlotsOf(RefsIn(Get(ReqPathItem, "delete")))
    /\ Exists(<<"schemas", "OnlyDelete">>)
    /\ <<"schemas", "OnlyDelete">> \notin ComponentSlots(LastDoc)

\* C5: when every reference reachable from the requested operation has its
\* target in the document, phase 4 passes on the extracted document
C5_Phase4Passes ==
    (Done /\ AllReachableRefsExist) =>
        validate_reference_resolution(LastDoc).passed

\* C6: the security schemes in the returned set are those the applicable
\* requirements name (the operation's own when it has a security key, even an
\* empty one; the document's otherwise), besides schemes reached by $ref
C6_SecurityPrecedence ==
    Done =>
      LET named == {n \in ApplicableSchemes : Exists(<<"securitySchemes", n>>)}
          byRef == {s[2] : s \in {x \in Closure(RefRoots) :
                                     x[1] = "securitySchemes"}}
          got == Keys(resolved["securitySchemes"])
      IN named \subseteq got /\ got \subseteq named \cup byRef
\* an operation with security: [] in a document with global security was
\* resolved with no scheme
C6_Witness ==
    /\ Done
    /\ Has(ReqOperation, "security") /\ ~Truthy(Get(ReqOperation, "security"))
    /\ Has(doc, "security") /\ Truthy(Get(doc, "security"))
    /\ Keys(resolved["securitySchemes"]) = {}

\* C10: the returned document's paths hold the requested path alone, its
\* path item the operation under the lower-cased method, and a parameters
\* entry exactly when the source path item has one
C10_SinglePath ==
    Done =>
      LET paths == Get(LastDoc, "paths")
          item == Get(paths, argPath)
      IN /\ Keys(paths) = {argPath}
         /\ Len(paths.c) = 1
         /\ Keys(item) = {Lower(argMethod)}
                \cup (IF Has(ReqPathItem, "parameters")
                      THEN {"parameters"} ELSE {})
         /\ Get(item, Lower(argMethod)) = ReqOperation
         /\ Has(ReqPathItem, "parameters") =>
                Get(item, "parameters") = Get(ReqPathItem, "parameters")
\* GET (upper case) was extracted from a path item with parameters and a
\* sibling delete
C10_Witness ==
    /\ Done
    /\ argMethod = "GET"
    /\ Has(ReqPathItem, "parameters") /\ Has(ReqPathItem, "delete")
    /\ Has(Get(Get(LastDoc, "paths"), argPath), "parameters")

\* the phases the document under validation fails, each run on its own
FailingPhases == {p \in 1..7 : ~RunPhase(p, doc, original_doc).passed}
FirstFailing == CHOOSE p \in FailingPhases : \A q \in FailingPhases : p <= q

\* C7: validate runs the phases in the order 1 to 7 and stops at the first
\* failing one: the phases executed so far are 1, 2, ... without a gap, every
\* executed phase but the last passed, the returned result is the failed
\* result of the lowest-numbered failing phase and that phase is the last one
\* executed, and when no phase fails the returned result is the phase-7
\* success after all seven phases ran.
C7_FirstFailureStops ==
    mode = "validate" =>
        /\ ran = [i \in 1..Len(ran) |-> i]
        /\ \A i \in 1..(Len(ran) - 1) :
              RunPhase(ran[i], doc, original_doc).passed
        /\ next_phase = 8 =>
              IF FailingPhases # {}
              THEN /\ vresult.phase = FirstFailing
                   /\ ~vresult.passed
                   /\ Len(ran) = FirstFailing
              ELSE /\ vresult = Passed(7)
                   /\ Len(ran) = 7
C7_Witness ==
    /\ mode = "validate"
    /\ next_phase = 8
    /\ vresult.phase = 2
    /\ Cardinality(FailingPhases) > 1

\* C8: extract (with the resolve_all_refs it runs) and convert leave the
\* caller's document as it was at construction, after successful and failing
\* calls alike, and no object of the returned document or component set is
\* an object of the caller's document, so that a write into the output is
\* never a write into the input.
C8_InputUntouched ==
    mode \in {"slice", "convert"} => doc = doc0 /\ shared = {}
C8_Witness ==
    /\ mode = "slice"
    /\ mutated
    /\ calls > 0
    /\ extracted # returned[Len(returned)].doc
    /\ doc = doc0

\* C9: every call of extract on one slicer with the same path and method,
\* and every call of convert with the same document and request, returns a
\* document deep-equal to the one the first call returned, whatever the caller
\* did with the earlier outputs in between.
C9_Deterministic ==
    /\ mode = "slice" =>
          \A i \in 1..Len(returned) : returned[i] = returned[1]
    /\ mode = "convert" =>
          \A i \in 1..Len(returned) :
              returned[i].converted_document = returned[1].converted_document
C9_Witness ==
    /\ mode = "slice"
    /\ Len(returned) > 1
    /\ mutated
    /\ returned[1].kind = "ok"
    /\ Keys(Section(returned[1].doc, "schemas")) # {}

\* the spellings of each method key a caller may pass
Spellings ==
    [get |-> {"GET", "Get", "get"}, delete |-> {"DELETE", "delete"},
     post |-> {"POST", "post"}]
\* the requested path is a key of paths and the requested method is, in some
\* letter-case, a key of its path item
Present ==
    /\ Has(GetOr(doc, "paths", Dict(<<>>)), argPath)
    /\ \E k \in Keys(Get(Get(doc, "paths"), argPath)) \cap DOMAIN Spellings :
          argMethod \in Spellings[k]

\* C11: a call of extract (and of the resolve_all_refs inside it) ends with
\* the not-found error exactly when the path is not a key of paths or the
\* method, compared without regard to letter-case, is not a key of the path
\* item; the error carries no document and every other call returns one.
C11_NotFound ==
    (mode = "slice" /\ pc = "idle" /\ calls > 0) =>
        LET last == returned[Len(returned)]
        IN /\ last.kind = "KeyError" <=> ~Present
           /\ last.kind = "KeyError" => last.doc = None
           /\ last.kind = "ok" => last.doc # None
\* a call for a method the existing path does not have ended with the error
C11_Witness ==
    /\ mode = "slice" /\ pc = "idle" /\ calls > 0
    /\ argPath = "/u" /\ argMethod = "POST"
    /\ returned[Len(returned)].kind = "KeyError"
\* the references under paths or components of the document under
\* validation that have the component form and no target in the document
Unresolved ==
    {r \in RefsIn(GetOr(doc, "paths", Dict(<<>>)))
           \cup RefsIn(GetOr(doc, "components", Dict(<<>>))) :
        IsLocalRef(r) /\ ~Exists(SlotOf(r))}
PassesPhases1To3 ==
    \A p \in 1..3 : RunPhase(p, doc, original_doc).passed

\* C12: when a document that passes phases 1 to 3 holds, under paths or
\* components, a component reference without a target in its own components,
\* validate returns the failed phase-4 result and its message names one of
\* the unresolved references.
C12_UnresolvedFails ==
    (mode = "validate" /\ next_phase = 8 /\ PassesPhases1To3
     /\ Unresolved # {}) =>
        /\ ~vresult.passed
        /\ vresult.phase = 4
        /\ \E r \in Unresolved :
              vresult.error_message =
                  <<"Reference not found in components">> \o r.s
\* validate returned for a document whose only unresolved reference is in the
\* definition of a component that is itself present
C12_Witness ==
    /\ mode = "validate" /\ next_phase = 8 /\ PassesPhases1To3
    /\ Unresolved # {}
    /\ Unresolved \subseteq RefsIn(GetOr(doc, "components", Dict(<<>>)))
    /\ Unresolved \cap RefsIn(GetOr(doc, "paths", Dict(<<>>))) = {}
    /\ ~vresult.passed

\* what phase 6 is to find when an original document is supplied
OriginalPaths == GetOr(original_doc, "paths", Dict(<<>>))
ExtraPath ==
    \E p \in Keys(Get(doc, "paths")) : ~Has(OriginalPaths, p)
ExtraMethod ==
    \E p \in Keys(Get(doc, "paths")) :
        /\ Has(OriginalPaths, p)
        /\ \E k \in Keys(Get(Get(doc, "paths"), p)) \ {"parameters"} :
              ~Has(Get(OriginalPaths, p), k)
DanglingRef ==
    \E r \in RefsIn(doc) :
        /\ StartsWithComponents(r.s)
        /\ Len(r.s) < 4 \/ ~Exists(SlotOf(r))
Phase6Ran == mode = "validate" /\ Len(ran) >= 6
Phase6Failed == Len(ran) = 6 /\ next_phase = 8 /\ ~vresult.passed

\* C13: phase 6 passes without looking when no original document is supplied,
\* and only then: with an original document supplied it fails whenever an
\* extracted path is not a path of the original, a method under an extracted
\* path is not in the original's path item, or a component reference of the
\* extracted document has no target in the extracted document's components.
C13_Phase6 ==
    Phase6Ran =>
        /\ original_doc = None => ~Phase6Failed
        /\ (original_doc # None /\ (ExtraPath \/ ExtraMethod \/ DanglingRef))
              => Phase6Failed

\* equality of JSON values as Python compares them: dicts by key and value
RECURSIVE SameJson(_, _)
SameJson(a, b) ==
    IF IsDict(a) /\ IsDict(b)
    THEN /\ Keys(a) = Keys(b)
         /\ \A k \in Keys(a) : SameJson(Get(a, k), Get(b, k))
    ELSE IF IsList(a) /\ IsList(b)
    THEN /\ Len(a.c) = Len(b.c)
         /\ \A i \in 1..Len(a.c) : SameJson(a.c[i], b.c[i])
    ELSE a = b
\* every dict of a JSON value
RECURSIVE DictsIn(_)
DictsIn(j) ==
    IF IsDict(j)
    THEN {j} \cup UNION {DictsIn(j.c[i][2]) : i \in 1..Len(j.c)}
    ELSE IF IsList(j) THEN UNION {DictsIn(j.c[i]) : i \in 1..Len(j.c)}
    ELSE {}
\* a schema {type: T, nullable: true}
IsNullableOf(x) ==
    /\ IsDict(x)
    /\ Keys(x) = {"type", "nullable"}
    /\ IsStr(Get(x, "type"))
    /\ Get(x, "nullable") = Bool(TRUE)
\* f holds, at every position of o, the same property keys and required
\* list, and the same schema where o holds {type: T, nullable: true}
RECURSIVE Restored(_, _)
Restored(o, f) ==
    IF IsDict(o)
    THEN /\ IsDict(f)
         /\ IsNullableOf(o) => SameJson(f, o)
         /\ Keys(GetOr(o, "properties", Dict(<<>>)))
               = Keys(GetOr(f, "properties", Dict(<<>>)))
         /\ GetOr(o, "required", None) = GetOr(f, "required", None)
         /\ Keys(o) \ {"openapi"} \subseteq Keys(f)
         /\ \A k \in Keys(o) : Restored(Get(o, k), Get(f, k))
    ELSE IF IsList(o)
    THEN /\ IsList(f)
         /\ Len(f.c) = Len(o.c)
         /\ \A i \in 1..Len(o.c) : Restored(o.c[i], f.c[i])
    ELSE TRUE
\* m holds {type: [T, "null"]} at every position where o holds
\* {type: T, nullable: true}
RECURSIVE InBetween(_, _)
InBetween(o, m) ==
    IF IsDict(o)
    THEN /\ IsDict(m)
         /\ IsNullableOf(o) =>
               SameJson(m, Dict(<< <<"type", List(<< Get(o, "type"),
                                                     Str("null") >>)>> >>))
         /\ \A k \in Keys(o) \cap Keys(m) : InBetween(Get(o, k), Get(m, k))
    ELSE IF IsList(o)
    THEN /\ IsList(m)
         /\ Len(m.c) = Len(o.c)
         /\ \A i \in 1..Len(o.c) : InBetween(o.c[i], m.c[i])
    ELSE TRUE
\* the document uses nullable/type constructs only
OnlyNullable ==
    \A d \in DictsIn(doc0) :
        /\ Keys(d) \cap {"discriminator", "webhooks", "identifier", "if",
                         "then", "else", "securitySchemes"} = {}
        /\ ~IsList(GetOr(d, "type", None))
RoundTripped ==
    /\ mode = "convert"
    /\ conv_request.source_version = "3.0.x"
    /\ conv_request.target_version = "3.1.x"
    /\ result_2 # None
    /\ result_2.success
    /\ ~mutated
    /\ OnlyNullable

TypesOf(schema) ==
    LET type == GetOr(schema, "type", None)
    IN IF IsStr(type) THEN {type}
       ELSE IF IsList(type) THEN {type.c[i] : i \in 1..Len(type.c)}
       ELSE {}
\* c holds, for schema o and every schema nested in it, a type array with
\* "null" and o's types and no nullable key wherever o had nullable: true
RECURSIVE Rewritten(_, _)
Rewritten(o, c) ==
    IF IsDict(o)
    THEN /\ IsDict(c)
         /\ GetOr(o, "nullable", None) = Bool(TRUE) =>
               /\ ~Has(c, "nullable")
               /\ IsList(GetOr(c, "type", None))
               /\ TypesOf(o) \cup {Str("null")} \subseteq TypesOf(c)
         /\ \A k \in Keys(o) \cap NestedKeys :
               /\ Has(c, k)
               /\ IF k = "properties" /\ IsDict(Get(o, k))
                  THEN \A n \in Keys(Get(o, k)) :
                          /\ Has(Get(c, k), n)
                          /\ Rewritten(Get(Get(o, k), n), Get(Get(c, k), n))
                  ELSE IF IsList(Get(o, k))
                  THEN /\ IsList(Get(c, k))
                       /\ Len(Get(c, k).c) = Len(Get(o, k).c)
                       /\ \A i \in 1..Len(Get(o, k).c) :
                             Rewritten(Get(o, k).c[i], Get(c, k).c[i])
                  ELSE Rewritten(Get(o, k), Get(c, k))
    ELSE TRUE
\* the parameter lists of a document: of each path item, of each operation
ParameterLists(d) ==
    {<<"paths", p, "parameters">> : p \in Keys(Get(d, "paths"))}
    \cup {<<"paths", p, m, "parameters">> :
            p \in Keys(Get(d, "paths")), m \in {Methods[i] : i \in DOMAIN Methods}}
HasIn(j, path) ==
    \A i \in 1..Len(path) : Has(GetIn(j, SubSeq(path, 1, i - 1)), path[i])
ParametersRewritten(o, c) ==
    \A path \in ParameterLists(o) :
        HasIn(o, path) =>
            /\ HasIn(c, path)
            /\ Len(GetIn(c, path).c) = Len(GetIn(o, path).c)
            /\ \A i \in 1..Len(GetIn(o, path).c) :
                  Has(GetIn(o, path).c[i], "schema") =>
                      Rewritten(Get(GetIn(o, path).c[i], "schema"),
                                GetOr(GetIn(c, path).c[i], "schema", None))
SchemasRewritten(o, c) ==
    \A n \in Keys(Section(o, "schemas")) :
        /\ Has(Section(c, "schemas"), n)
        /\ Rewritten(Get(Section(o, "schemas"), n),
                     Get(Section(c, "schemas"), n))
ConvertedTo31 ==
    /\ mode = "convert"
    /\ conv_request.source_version = "3.0.x"
    /\ conv_request.target_version = "3.1.x"
    /\ returned # <<>>
    /\ returned[Len(returned)].success
    /\ ~mutated

\* C15: after a successful 3.0 to 3.1 conversion, every component schema,
\* every parameter schema (of an operation or of a path item) and every
\* schema nested in one through properties, items, allOf, oneOf, anyOf that
\* had nullable: true has a type array holding "null" and its original
\* types, and no nullable key.
C15_NullableRewritten ==
    ConvertedTo31 =>
        /\ SchemasRewritten(doc0, returned[Len(returned)].converted_document)
        /\ ParametersRewritten(doc0,
                               returned[Len(returned)].converted_document)

\* the reasons a conversion of the caller's document may fail for
OpenapiField == GetOr(doc, "openapi", Str(""))
RaisesException == ~IsStr(OpenapiField)
VersionsOf ==
    [x \in {"3.0.x", "3.1.x"} |->
        IF x = "3.0.x" THEN {Str("3.0.0"), Str("3.0.3")} ELSE {Str("3.1.0")}]
Inconsistent ==
    IsStr(OpenapiField) /\ OpenapiField \notin VersionsOf[conv_request.source_version]
Unsupported == conv_request.source_version = conv_request.target_version
StrictWithErrors(r) == conv_request.strict_mode /\ r.errors # <<>>

\* C16: a conversion result is a failure exactly when the openapi field is
\* inconsistent with the source version (whatever the mode), the direction
\* is unsupported, an exception occurred, or the mode is strict and an error
\* was accumulated; so in permissive mode errors never prevent success, in
\* strict mode any error does, and warnings change nothing.
C16_Success ==
    mode = "convert" =>
        /\ \A i \in 1..Len(returned) :
              /\ ~returned[i].success <=>
                    \/ Inconsistent
                    \/ Unsupported
                    \/ RaisesException
                    \/ StrictWithErrors(returned[i])
              /\ Inconsistent => ~returned[i].success
        /\ result_2 # None => (~result_2.success <=> StrictWithErrors(result_2))
C16_Witness ==
    /\ mode = "convert"
    /\ returned # <<>>
    /\ result_2 # None
    /\ ~conv_request.strict_mode
    /\ returned[1].success
    /\ returned[1].errors # <<>>
    /\ returned[1].warnings # <<>>
    /\ result_2.success
    /\ result_2.errors # <<>>

\* constructs of the other version left in a converted document
LeftoverNullable(d) == \E x \in DictsIn(d) : Has(x, "nullable")
LeftoverTypeArray(d) ==
    \E x \in DictsIn(d) : IsList(GetOr(x, "type", None))
LeftoverWebhooks(d) == Has(d, "webhooks")
Reports(r, message) == \E i \in 1..Len(r.errors) : r.errors[i][1] = message
\* every leftover of the target version's document is among the errors
LeftoversReported(r) ==
    IF r.target_version = "3.1.x"
    THEN LeftoverNullable(r.converted_document)
            => Reports(r, "still contains 'nullable'")
    ELSE /\ LeftoverWebhooks(r.converted_document)
            => Reports(r, "Webhooks found in document but target is 3.0.x")
         /\ LeftoverTypeArray(r.converted_document) => r.errors # <<>>

\* C17: target-version validation reports every construct of the other
\* version left in the converted document as an error (a nullable key in a
\* 3.1 document; a type array or webhooks in a 3.0 document), and in strict
\* mode such a finding fails the conversion: a result that succeeded carries
\* an error for each leftover of its document, and none in strict mode.
C17_LeftoversReported ==
    mode = "convert" =>
        /\ \A i \in 1..Len(returned) :
              returned[i].success =>
                  /\ LeftoversReported(returned[i])
                  /\ conv_request.strict_mode => returned[i].errors = <<>>
        /\ (result_2 # None /\ result_2.success) =>
              /\ LeftoversReported(result_2)
              /\ conv_request.strict_mode => result_2.errors = <<>>

\* the component schemas of the input that carry if/then/else, themselves
\* or in a schema nested anywhere in them
Conditional(x) == Keys(x) \cap {"if", "then", "else"} # {}
ConditionalSchemas ==
    {n \in Keys(Section(doc0, "schemas")) :
        \E x \in DictsIn(Get(Section(doc0, "schemas"), n)) : Conditional(x)}
TopLevelConditionals ==
    {n \in Keys(Section(doc0, "schemas")) :
        /\ IsDict(Get(Section(doc0, "schemas"), n))
        /\ Conditional(Get(Section(doc0, "schemas"), n))}
RuleError == <<"JSON Schema conditionals not supported in 3.0.x">>
RuleWarning == <<"JSON Schema conditionals found">>
ValidationError(n) == <<"contains JSON Schema conditionals", n>>
Among(x, seq) == \E i \in 1..Len(seq) : seq[i] = x
AboutConditionals(errors) ==
    {errors[i] : i \in 1..Len(errors)}
        \cap ({RuleError} \cup {ValidationError(n) : n \in ConditionalSchemas})
ConvertedTo30 ==
    /\ mode = "convert"
    /\ conv_request.source_version = "3.1.x"
    /\ conv_request.target_version = "3.0.x"
    /\ GetOr(doc0, "openapi", None) = Str("3.1.0")
    /\ ConditionalSchemas # {}

\* C18 as stated: in a 3.1 to 3.0 conversion of a document with if/then/else
\* anywhere under components.schemas, strict mode fails with an error, and
\* permissive mode succeeds with a warning and no error about them.
C18_WarningOnly ==
    \A i \in 1..Len(returned) :
        ConvertedTo30 =>
            IF conv_request.strict_mode
            THEN /\ ~returned[i].success
                 /\ AboutConditionals(returned[i].errors) # {}
            ELSE /\ returned[i].success
                 /\ Among(RuleWarning, returned[i].warnings)
                 /\ AboutConditionals(returned[i].errors) = {}

\* C18 amended: strict mode fails with the rule's error; permissive mode
\* succeeds with the rule's warning, and the errors it carries about
\* conditionals are those of target validation, one for each top-level
\* component schema that has the keywords itself.
C18_WarningAndValidationError ==
    \A i \in 1..Len(returned) :
        ConvertedTo30 =>
            IF conv_request.strict_mode
            THEN /\ ~returned[i].success
                 /\ AboutConditionals(returned[i].errors) = {RuleError}
                 /\ ~Among(RuleWarning, returned[i].warnings)
            ELSE /\ returned[i].success
                 /\ Among(RuleWarning, returned[i].warnings)
                 /\ AboutConditionals(returned[i].errors)
                       = {ValidationError(n) : n \in TopLevelConditionals}
C18_Witness ==
    /\ returned # <<>>
    /\ ConvertedTo30
    /\ ~conv_request.strict_mode
    /\ TopLevelConditionals # {}
    /\ ConditionalSchemas # TopLevelConditionals
    /\ returned[1].success
    /\ Among(RuleWarning, returned[1].warnings)
    /\ Among(ValidationError("X"), returned[1].errors)

\* the warnings the rules of a 3.1 to 3.0 conversion owe the input
WarningsOwed ==
    (IF Has(doc0, "webhooks") THEN {<<"Webhooks removed">>} ELSE {})
    \cup (IF \E n \in Keys(Section(doc0, "securitySchemes")) :
                GetOr(Get(Section(doc0, "securitySchemes"), n), "type", None)
                   = Str("mutualTLS")
          THEN {<<"mutualTLS security scheme removed">>} ELSE {})
    \cup (IF Has(GetOr(Get(doc0, "info"), "license", None), "identifier")
          THEN {<<"license.identifier moved to license.name">>} ELSE {})
\* strict mode, and the rules found an error: the only error of the rules
\* is the one about conditionals
StrictRuleError == ConvertedTo30 /\ conv_request.strict_mode
WarningsAttached(r) == \A w \in WarningsOwed : Among(w, r.warnings)

\* C19: when strict_mode is set and the rules accumulated an error, convert
\* returns a failure whose document still has the source's version field,
\* and the result carries that document and the warnings accumulated so far.
C19_StrictFailure ==
    \A i \in 1..Len(returned) :
        StrictRuleError =>
            /\ ~returned[i].success
            /\ Among(RuleError, returned[i].errors)
            /\ WarningsAttached(returned[i])
            /\ returned[i].converted_document # None
            /\ GetOr(returned[i].converted_document, "openapi", None)
                  = Get(doc0, "openapi")

\* the endpoints whose extraction writes a file
Written ==
    {i \in 1..Len(endpoints) : endpoints[i].outcome \in {"written", "warned"}}
FuturesIn(status) == {i \in 1..Len(futures) : futures[i] = status}
\* some step of the batch can be taken: a worker is free for a queued task,
\* a task is running, a finished future waits for the collector, or all
\* futures are collected and process returns
CanProceed ==
    \/ FuturesIn("queued") # {}
          /\ Cardinality(FuturesIn("running")) < batch_request.concurrency
    \/ FuturesIn("running") # {}
    \/ FuturesIn("written") # {}
    \/ FuturesIn("done") # {}
    \/ FuturesIn("collected") = 1..Len(futures)
BatchDone ==
    mode = "batch" /\ batch_pc = "returned" /\ ~batch_request.dry_run

\* C20: for every worker count and completion order, no endpoint is
\* processed twice, a failed or raising extraction never leaves the batch
\* unable to go on, and when process returns every selected endpoint was
\* processed once and counted once: extracted_count is the number of
\* endpoints whose extraction writes a file, failed_count the number of the
\* others (the counts of a one-worker run), and they add up to
\* total_endpoints.
C20_BatchCounts ==
    mode = "batch" =>
        /\ \A i \in 1..Len(endpoints) : processed[i] <= 1
        /\ batch_pc = "collecting" =>
              /\ CanProceed
              /\ extracted_count + failed_count
                    = Cardinality(FuturesIn("collected"))
        /\ batch_pc = "returned" =>
              /\ batch_result.total_endpoints = Len(endpoints)
              /\ batch_result.extracted_count + batch_result.failed_count
                    = batch_result.total_endpoints
        /\ BatchDone =>
              /\ \A i \in 1..Len(endpoints) : processed[i] = 1
              /\ batch_result.extracted_count = Cardinality(Written)
              /\ batch_result.failed_count
                    = Len(endpoints) - Cardinality(Written)
              /\ Len(batch_result.output_files) = Cardinality(Written)
              /\ \A i \in Written :
                    \E k \in 1..Len(batch_result.output_files) :
                        batch_result.output_files[k]
                           = extract_endpoint(
                                 endpoints[i],
                                 batch_request.output_format).output_path
C20_Witness ==
    /\ BatchDone
    /\ batch_request.concurrency = 2
    /\ Len(endpoints) = 3
    /\ endpoints[1].outcome = "raised"
    /\ endpoints[2].outcome = "failed"
    /\ endpoints[3].outcome = "written"
    /\ batch_result.failed_endpoints[1][1] = endpoints[2].path
    /\ batch_result.failed_endpoints[2][1] = endpoints[1].path
    /\ batch_result.extracted_count = 1
    /\ batch_result.failed_count = 2

\* a $ref string the resolver has nothing to resolve for: not of the form
\* #/components/<one of the eight categories>/<name>, or without a target
Skippable(r) == ~IsComponentRef(r) \/ ~Exists(SlotOf(r))
AtSkippable ==
    /\ mode = "slice"
    /\ pc = "bfs"
    /\ refs_to_process # <<>>
    /\ Skippable(Head(refs_to_process))

\* C24: when the traversal takes from its queue a $ref that is external,
\* malformed, of an unknown category or without a target in the document,
\* the step raises nothing (the traversal is still running and nothing was
\* returned), leaves the resolved set as it was, and leaves the rest of the
\* queue to be processed.
C24_SkippedSilently ==
    [][AtSkippable =>
          /\ pc' = "bfs"
          /\ returned' = returned
          /\ resolved' = resolved
          /\ refs_to_process' = Tail(refs_to_process)]_vars
C24_Witness ==
    /\ Done
    /\ \E r \in RefsIn(ReqOperation) : ~IsLocalRef(r)
    /\ <<"headers", "H">> \in ResolvedSlots
    /\ <<"schemas", "B">> \in ResolvedSlots
    /\ \A slot \in ResolvedSlots : Exists(slot)

\* the openapi values of the form 3.0.<patch> or 3.1.<patch>
SupportedVersions == VersionsOf["3.0.x"] \cup VersionsOf["3.1.x"]
Phase7Ran == mode = "validate" /\ next_phase = 8 /\ Len(ran) = 7

\* C25: phase 7 passes exactly when the openapi field is a string
\* <major>.<minor>.<patch> with major 3 and minor 0 or 1; every other value
\* of the field fails it.
C25_Phase7 ==
    Phase7Ran =>
        (vresult.passed <=> GetOr(doc, "openapi", None) \in SupportedVersions)

\* the document is no mapping, or lacks openapi, info or a mapping paths
StructurallyBroken(d) ==
    \/ ~IsDict(d)
    \/ {"openapi", "info", "paths"} \ Keys(d) # {}
    \/ ~IsDict(Get(d, "paths"))

\* C26: a document that is not a mapping, or lacks the openapi key, the
\* info key or a mapping-valued paths, fails validation at phase 1 with
\* passed = False, and phase 1 is the only phase evaluated for it.
C26_Phase1 ==
    (mode = "validate" /\ StructurallyBroken(doc)) =>
        /\ Len(ran) <= 1
        /\ next_phase # 1 =>
              /\ next_phase = 8
              /\ ran = <<1>>
              /\ vresult.phase = 1
              /\ ~vresult.passed
C26_Witness ==
    /\ mode = "validate"
    /\ next_phase = 8
    /\ IsDict(doc)
    /\ ~Has(doc, "openapi")
    /\ Has(doc, "info")
    /\ IsDict(GetOr(doc, "paths", None))
    /\ vresult = Failed(1, <<"Missing 'openapi' field">>)
    /\ ran = <<1>>

\* the references one iteration of the BFS loop put on the queue
AppendedRefs ==
    SubSeq(refs_to_process', Len(refs_to_process), Len(refs_to_process'))
\* no component visited before the iteration is looked up, copied and added
NotExpandedAgain ==
    \A slot \in visited : AddsOf(adds', slot) = AddsOf(adds, slot)
\* no reference to a component visited before the iteration is queued
NotQueuedAgain ==
    \A i \in 1..Len(AppendedRefs) :
        IsComponentRef(AppendedRefs[i]) => SlotOf(AppendedRefs[i]) \notin visited

\* C27: during resolve_all_refs, a reference whose (category, name) pair is
\* already in the visited set is never expanded again and is never put on
\* the traversal queue again.
C27_NoRevisit ==
    [][(mode = "slice" /\ pc = "bfs" /\ pc' = "bfs")
          => (NotExpandedAgain /\ NotQueuedAgain)]_vars

\* each response of the requested operation is an inline response object
\* with a description or a reference to an existing components.responses entry
ResponsesWellFormed ==
    LET responses == GetOr(ReqOperation, "responses", Dict(<<>>))
    IN /\ IsDict(responses)
       /\ \A i \in 1..Len(responses.c) :
             LET response == responses.c[i][2]
             IN /\ IsDict(response)
                /\ \/ Has(response, "description")
                   \/ /\ Has(response, "$ref")
                      /\ IsLocalRef(Get(response, "$ref"))
                      /\ SlotOf(Get(response, "$ref"))[1] = "responses"
                      /\ Exists(SlotOf(Get(response, "$ref")))
\* every reference of the requested operation into the components names a
\* category and a component
RefsNameComponents ==
    \A r \in RefsIn(ReqOperation) \cup RefsIn(ReqParams) :
        StartsWithComponents(r.s) => Len(r.s) >= 4
PhasesFailingOn(d) == {p \in 1..7 : ~RunPhase(p, d, doc).passed}

\* C28: when the responses of the requested operation are inline with a
\* description or references to existing components.responses entries and
\* every reachable reference has its target, the document extract returned
\* passes all seven validation phases against the source document
C28_ExtractValidates ==
    (Done /\ AllReachableRefsExist /\ RefsNameComponents
          /\ ResponsesWellFormed) =>
        PhasesFailingOn(LastDoc) = {}

\* the mutualTLS schemes of the document handed to the converter
MutualTlsSchemes ==
    LET schemes == GetOr(GetOr(doc0, "components", Dict(<<>>)),
                         "securitySchemes", Dict(<<>>))
    IN {schemes.c[i][1] : i \in {j \in 1..Len(schemes.c) :
                                    IsMutualTLS(schemes.c[j])}}
\* the scheme names of the top-level and operation-level requirements of d
RequiredSchemes(d) ==
    UNION {NamesIn(Get(x, "security")) :
             x \in {y \in DictsIn(d) : /\ Has(y, "security")
                                       /\ IsList(Get(y, "security"))}}
\* d neither requires nor references a mutualTLS scheme it no longer defines
NamesNoRemovedScheme(d) ==
    \A n \in MutualTlsSchemes :
        ~Has(GetOr(GetOr(d, "components", Dict(<<>>)), "securitySchemes", Dict(<<>>)), n) =>
            /\ n \notin RequiredSchemes(d)
            /\ Ref("securitySchemes", n) \notin RefsIn(d)

\* C29: in the document a 3.1 to 3.0 conversion returns, no top-level or
\* operation-level security requirement and no $ref names a mutualTLS scheme
\* that the conversion removed from components.securitySchemes
C29_Consistent ==
    \A i \in 1..Len(returned) :
        (/\ mode = "convert"
         /\ conv_request.source_version = "3.1.x"
         /\ conv_request.target_version = "3.0.x"
         /\ returned[i].converted_document # None) =>
            NamesNoRemovedScheme(returned[i].converted_document)

\* the entries of the result's failed_endpoints that name endpoint i
EntriesOf(i) ==
    {k \in 1..Len(batch_result.failed_endpoints) :
        /\ batch_result.failed_endpoints[k][1] = endpoints[i].path
        /\ batch_result.failed_endpoints[k][2] = endpoints[i].method}
\* the endpoints the collector counted in failed_count
CountedFailed == (1..Len(endpoints)) \ Written

\* C30: when process has returned, every entry of failed_endpoints names an
\* endpoint counted in failed_count, every endpoint counted in failed_count
\* has exactly one entry, and an endpoint whose file was written (also after
\* a conversion with warnings) has none
C30_FailedEndpoints ==
    BatchDone =>
        /\ \A k \in 1..Len(batch_result.failed_endpoints) :
              \E i \in CountedFailed : k \in EntriesOf(i)
        /\ \A i \in CountedFailed : Cardinality(EntriesOf(i)) = 1
        /\ \A i \in Written : EntriesOf(i) = {}

\* the names of the files in the output directory
FileNames == {f[1] : f \in files}
\* the file the batch writes for endpoint i
OutputPathOf(i) ==
    extract_endpoint(endpoints[i], batch_request.output_format).output_path
NoFileTwice(paths) ==
    \A j, k \in 1..Len(paths) : paths[j] = paths[k] => j = k

\* C22: when process has returned, the output directory holds as many files
\* as extracted_count says, output_files lists each of them once, and the
\* file of every written endpoint still holds what that endpoint wrote
C22_DistinctFiles ==
    BatchDone =>
        /\ Cardinality(FileNames) = batch_result.extracted_count
        /\ NoFileTwice(batch_result.output_files)
        /\ \A i \in Written : <<OutputPathOf(i), i>> \in files

\* the endpoints whose extraction, validation or conversion fails
FailingEndpoints == (1..Len(endpoints)) \ Written
RowOf(i) == <<endpoints[i].path, endpoints[i].method>>
\* nothing in the output directory or in the index comes from endpoint i
NothingFrom(i) ==
    /\ \A f \in files : f[2] # i
    /\ \A k \in 1..Len(csv_rows) : csv_rows[k] # RowOf(i)
\* the step writes the file of a running endpoint that got through
\* extraction, validation and conversion
WritesAfterSuccess ==
    \E i \in Written :
        /\ futures[i] = "running"
        /\ futures'[i] = "written"
        /\ files' = write_output_file(files, OutputPathOf(i), i)
\* the step appends the row of an endpoint whose file is written
AppendsAfterWrite ==
    \E i \in Written :
        /\ futures[i] = "written"
        /\ OutputPathOf(i) \in FileNames
        /\ csv_rows' = Append(csv_rows, RowOf(i))

\* C23: in a batch run an endpoint whose extraction, validation or
\* conversion fails leaves no file and no index row; a file is written only
\* by the task of an endpoint that passed validation and conversion, and a
\* row is appended only for an endpoint whose file is already written
C23_NothingOnFailure ==
    [][mode = "batch" =>
          /\ \A i \in FailingEndpoints : NothingFrom(i)'
          /\ files' # files => WritesAfterSuccess
          /\ csv_rows' # csv_rows => AppendsAfterWrite]_vars
\* a batch with the index enabled returned: the conversion of the first
\* endpoint failed, the second was written and indexed, the extraction of
\* the third raised
C23_Witness ==
    /\ BatchDone
    /\ CsvEnabled
    /\ Len(endpoints) = 3
    /\ endpoints[1].outcome = "unconvertible"
    /\ endpoints[2].outcome = "written"
    /\ endpoints[3].outcome = "raised"
    /\ files = {<<OutputPathOf(2), 2>>}
    /\ csv_rows = <<RowOf(2)>>
    /\ batch_result.failed_count = 2

\* no two rows of the index have the same (path, upper-cased method)
NoDuplicateRows ==
    \A j, k \in 1..Len(csv_rows) :
        (/\ csv_rows[j][1] = csv_rows[k][1]
         /\ upper(csv_rows[j][2]) = upper(csv_rows[k][2])) => j = k
\* thread t returns from append_entry in this step
ReturnsFromAppendEntry(t) ==
    /\ csv_threads[t].op = "entry"
    /\ csv_threads[t].pc \in {"lock", "write"}
    /\ csv_threads'[t].pc = "idle"
\* the call wrote nothing and returned False for a key in the index, and
\* wrote its row and returned True otherwise
AppendedOrSkipped(t) ==
    IF Key(csv_threads[t].entries[1]) \in LoadedKeys(csv_rows)
    THEN csv_rows' = csv_rows /\ ~csv_threads'[t].returned
    ELSE /\ csv_rows' = Append(csv_rows, RowFor(csv_threads[t].entries[1]))
         /\ csv_threads'[t].returned

\* C21: with duplicate skipping on and an index that starts empty or
\* without duplicates, no interleaving of append_entry and append_batch
\* calls, and no later run that opens the index again, leaves two rows with
\* the same (path, upper-cased method); append_entry writes nothing and
\* returns False for a key already present, and writes one row and returns
\* True otherwise
C21_NoDuplicateRows ==
    [][mode = "csv" =>
          /\ NoDuplicateRows'
          /\ \A t \in Threads :
                ReturnsFromAppendEntry(t) => AppendedOrSkipped(t)]_vars
\* a later run opened the index of an earlier one in append mode, and of
\* two threads appending the same key one wrote the row and one was refused
C21_Witness ==
    /\ mode = "csv"
    /\ csv_initialized
    /\ Len(csv_rows) = 2
    /\ csv_rows[1] = <<BatchPaths[1], "get">>
    /\ csv_rows[2] = <<BatchPaths[2], "get">>
    /\ \A t \in Threads :
          /\ csv_threads[t].pc = "idle"
          /\ csv_threads[t].op = "entry"
          /\ csv_threads[t].entries = <<IndexEntry(2, "get")>>
    /\ csv_threads[1].returned
    /\ ~csv_threads[2].returned

====
